---- MODULE Spec2Model ----
(***************************************************************************)
(* A model of the character controller of src/catsctsm641.x.py: the        *)
(* collision queries (find_floor, find_wall), the physics steps            *)
(* (ground_step, air_step), the action handlers of ACT_MAP, the actor      *)
(* update and interaction rules, the logic tick of main() and the depth    *)
(* sort of render().                                                       *)
(*                                                                         *)
(* Numbers.  The program computes with Python floats.  The model uses      *)
(* fixed point: lengths, heights, speeds and velocities are integers in    *)
(* units of 1/FX (FX = 10), so 42.0 is 420 and the quarter velocity 9.5    *)
(* is 95.   Components of surface normals and the values of sins/coss are  *)
(* integers in units of 1/NS (NS = 1000).  Angles are integers in units of *)
(* 1/AS degree (AS = 100), so the turn step 11.25 is 1125.  A product or   *)
(* quotient that is not exact at that resolution is truncated toward zero  *)
(* (RDiv); every threshold the program compares against is exact.          *)
(*                                                                         *)
(* Horizontal motion.  The stick is modelled as pushed along the z axis in *)
(* the direction the character faces, so the facing yaw is 0 or 180        *)
(* degrees, sins is 0 and the character stays on the line x = 0.  On the   *)
(* level LVL_PLANE (one horizontal floor, no actors) the tick is followed  *)
(* by Recentre, which maps the character back to the floor's centre: on a  *)
(* floor that contains the whole motion nothing the program computes       *)
(* depends on the horizontal position, so this identifies states that the  *)
(* program cannot tell apart and keeps the state space finite.             *)
(*                                                                         *)
(* Not modelled: sound, the squash animation, bob_phase, anim_frame,       *)
(* peak_y (none is read by the logic modelled here) and the camera.  The   *)
(* particle list, which no logic reads either, is followed by StageTick    *)
(* alone (the particles that interact_objs emits, and their update); the   *)
(* other specifications leave it as it is.                                 *)
(***************************************************************************)
EXTENDS Integers, Sequences, FiniteSets, TLC

VARIABLES
    mario,      \* the MarioState of main()
    objs,       \* the global actor list
    surfs,      \* the global surface list
    cur_lvl,    \* the global current level id
    state,      \* the GameState of main()
    probe,      \* input and result of the operation applied by the
                \* specifications of the pure functions (find_floor, render)
    hist,       \* history of the last tick, see Observe
    plan,       \* the player's input script and count of free ticks
    ptcl        \* the global particle list ptcl.ps

vars == <<mario, objs, surfs, cur_lvl, state, probe, hist, plan, ptcl>>

----------------------------------------------------------------------------
(* Fixed-point resolution and arithmetic helpers                           *)

FX == 10
NS == 1000
AS == 100

Abs(a) == IF a < 0 THEN -a ELSE a
Min(a, b) == IF a < b THEN a ELSE b
Max(a, b) == IF a > b THEN a ELSE b

\* a / b of the program's float division, truncated toward zero
RDiv(a, b) ==
    LET q == Abs(a) \div Abs(b)
    IN  IF (a < 0) # (b < 0) THEN -q ELSE q

\* mask & bit # 0, for a single-bit mask `bit'
HasBit(mask, bit) == (mask \div bit) % 2 = 1

Vec3f(x, y, z) == [x |-> x, y |-> y, z |-> z]

approach_f32(cur, tgt, inc) ==
    IF cur < tgt THEN Min(cur + inc, tgt)
    ELSE IF cur > tgt THEN Max(cur - inc, tgt)
    ELSE cur

approach_angle(cur, tgt, inc) ==
    LET d == ((tgt - cur + 180 * AS) % (360 * AS)) - 180 * AS
    IN  IF d > inc THEN cur + inc
        ELSE IF d < -inc THEN cur - inc
        ELSE tgt

\* sin and cos of an angle, in units of 1/NS; the model only produces
\* multiples of 90 degrees
sins(d) ==
    LET a == d % (360 * AS)
    IN  CASE a = 0 -> 0
          [] a = 90 * AS -> NS
          [] a = 180 * AS -> 0
          [] a = 270 * AS -> -NS

coss(d) ==
    LET a == d % (360 * AS)
    IN  CASE a = 0 -> NS
          [] a = 90 * AS -> 0
          [] a = 180 * AS -> -NS
          [] a = 270 * AS -> 0

----------------------------------------------------------------------------
(* Action ids, physics constants, input bits, surface types               *)

ACT_IDLE == 205521409
ACT_WALKING == 67109952
ACT_DECELERATING == 67109962
ACT_CROUCH_IDLE == 201359904
ACT_PUNCHING == 8389504
ACT_PUNCH2 == 8389505
ACT_KICK == 8389506
ACT_JUMP == 50333824
ACT_DOUBLE_JUMP == 50333825
ACT_TRIPLE_JUMP == 16779394
ACT_BACKFLIP == 16779395
ACT_LONG_JUMP == 50333832
ACT_WALL_KICK == 50333830
ACT_SIDE_FLIP == 16779399
ACT_FREEFALL == 16779404
ACT_DIVE == 25692298
ACT_BELLY_SLIDE == 132166
ACT_GROUND_POUND == 8390825
ACT_GP_LAND == 8390827
ACT_SLIDE_KICK == 25168042
ACT_SLIDE_KICK_SL == 132169
ACT_KNOCKBACK == 33688576
ACT_LAVA_BOOST == 134146
ACT_STAR_DANCE == 4866
ACT_DEATH == 134148

GRAVITY == -4 * FX
MAX_FALL == -75 * FX
MAX_WALK == 32 * FX
AIR_DRAG == 98
WALL_KICK_VEL == 52 * FX
JUMP_VEL == 42 * FX
DBL_JUMP_VEL == 52 * FX
TRIPLE_VEL == 69 * FX
BACKFLIP_VEL == 62 * FX
SIDEFLIP_VEL == 62 * FX
LONGJUMP_VEL == 30 * FX
DIVE_VEL == 10 * FX
GP_FALL_VEL == -60 * FX
LAVA_BOOST_VEL == 60 * FX
KNOCKBACK_VEL == 30 * FX

IN_A == 1
IN_B == 2
IN_Z == 4
IN_A_D == 16
IN_Z_D == 64

SURF_DEFAULT == 0
SURF_LAVA == 1
SURF_DEATH == 3

\* Python's None, for a surface reference
None == [none |-> TRUE]

----------------------------------------------------------------------------
(* MarioState                                                              *)

MarioState ==
    [pos |-> Vec3f(0, 0, 0), vel |-> Vec3f(0, 0, 0), fvel |-> 0, face |-> 0,
     action |-> ACT_IDLE, prev_act |-> ACT_IDLE, astate |-> 0, atimer |-> 0,
     health |-> 2176, coins |-> 0, stars |-> 0, lives |-> 4,
     floor |-> None, floor_y |-> -10000 * FX, wall |-> None,
     imag |-> 0, iyaw |-> 0, jcount |-> 0, jtimer |-> 0, wktimer |-> 0,
     hurt |-> 0, inv |-> 0, lvl_stars |-> {}, punch_state |-> 0]

set_act_keep_timer(m, a) ==
    [m EXCEPT !.prev_act = m.action, !.action = a, !.astate = 0]

set_act(m, a) ==
    [m EXCEPT !.prev_act = m.action, !.action = a, !.astate = 0, !.atimer = 0]

heal_uncapped(m, amt) == [m EXCEPT !.health = m.health + amt]

heal(m, amt) == [m EXCEPT !.health = Min(2176, m.health + amt)]

take_dmg_unguarded(m, amt) ==
    [m EXCEPT !.health = Max(0, m.health - amt), !.hurt = 10, !.inv = 60]

take_dmg(m, amt) ==
    IF m.inv > 0 THEN m
    ELSE [m EXCEPT !.health = Max(0, m.health - amt), !.hurt = 10, !.inv = 60]

wedges(m) == (m.health \div 256) % 16

\* lvl_stars, a dict from level id to a set of star ids, as a set of pairs
has_star(m, l, s) == <<l, s>> \in m.lvl_stars

get_star(m, l, s) ==
    IF <<l, s>> \in m.lvl_stars THEN m
    ELSE [m EXCEPT !.lvl_stars = @ \cup {<<l, s>>}, !.stars = @ + 1]

----------------------------------------------------------------------------
(* Geometry builders                                                       *)

Surface(id, verts, normal, stype) ==
    [id |-> id, verts |-> verts, normal |-> normal, stype |-> stype]

\* the five faces of make_box: top, front, back, left, right
make_box(id, x, y, z, w, h, d, st) ==
    LET hw == RDiv(w, 2)  hh == RDiv(h, 2)  hd == RDiv(d, 2)
    IN  << Surface(id + 1, <<Vec3f(x-hw,y+hh,z-hd), Vec3f(x+hw,y+hh,z-hd),
                             Vec3f(x+hw,y+hh,z+hd), Vec3f(x-hw,y+hh,z+hd)>>,
                   Vec3f(0, NS, 0), st),
           Surface(id + 2, <<Vec3f(x-hw,y-hh,z+hd), Vec3f(x+hw,y-hh,z+hd),
                             Vec3f(x+hw,y+hh,z+hd), Vec3f(x-hw,y+hh,z+hd)>>,
                   Vec3f(0, 0, NS), st),
           Surface(id + 3, <<Vec3f(x+hw,y-hh,z-hd), Vec3f(x-hw,y-hh,z-hd),
                             Vec3f(x-hw,y+hh,z-hd), Vec3f(x+hw,y+hh,z-hd)>>,
                   Vec3f(0, 0, -NS), st),
           Surface(id + 4, <<Vec3f(x-hw,y-hh,z-hd), Vec3f(x-hw,y-hh,z+hd),
                             Vec3f(x-hw,y+hh,z+hd), Vec3f(x-hw,y+hh,z-hd)>>,
                   Vec3f(-NS, 0, 0), st),
           Surface(id + 5, <<Vec3f(x+hw,y-hh,z+hd), Vec3f(x+hw,y-hh,z-hd),
                             Vec3f(x+hw,y+hh,z-hd), Vec3f(x+hw,y+hh,z+hd)>> ,
                   Vec3f(NS, 0, 0), st) >>

\* integer square root
RECURSIVE ISqrtIn(_, _, _)
ISqrtIn(n, lo, hi) ==
    IF lo >= hi THEN lo
    ELSE LET mid == (lo + hi + 1) \div 2
         IN  IF mid * mid <= n THEN ISqrtIn(n, mid, hi)
             ELSE ISqrtIn(n, lo, mid - 1)

ISqrt(n) == ISqrtIn(n, 0, 46340)

\* make_quad: the normal is the normalised cross product of two edges; a
\* cross product of length below 0.0001 is divided by 1 instead.  The
\* vertices are in units of 1/FX; the cross product is taken in whole units
\* and brought below 10000 per component before it is normalised, so that
\* the squares stay within TLC's 32-bit integers.
make_quad_up(id, p1, p2, p3, p4, st) ==
    LET ux == RDiv(p2.x - p1.x, FX)  uy == RDiv(p2.y - p1.y, FX)
        uz == RDiv(p2.z - p1.z, FX)
        vx == RDiv(p3.x - p1.x, FX)  vy == RDiv(p3.y - p1.y, FX)
        vz == RDiv(p3.z - p1.z, FX)
        cx == uy * vz - uz * vy
        cy == uz * vx - ux * vz
        cz == ux * vy - uy * vx
        k  == (Max(Abs(cx), Max(Abs(cy), Abs(cz))) \div 10000) + 1
        nx == RDiv(cx, k)  ny == RDiv(cy, k)  nz == RDiv(cz, k)
        m  == ISqrt(nx * nx + ny * ny + nz * nz)
    IN  IF m = 0
        THEN Surface(id, <<p1, p2, p3, p4>>, Vec3f(0, NS, 0), st)
        ELSE Surface(id, <<p1, p2, p3, p4>>,
                     Vec3f(RDiv(nx * NS, m), RDiv(ny * NS, m), RDiv(nz * NS, m)),
                     st)

make_quad(id, p1, p2, p3, p4, st) ==
    LET ux == RDiv(p2.x - p1.x, FX)  uy == RDiv(p2.y - p1.y, FX)
        uz == RDiv(p2.z - p1.z, FX)
        vx == RDiv(p3.x - p1.x, FX)  vy == RDiv(p3.y - p1.y, FX)
        vz == RDiv(p3.z - p1.z, FX)
        cx == uy * vz - uz * vy
        cy == uz * vx - ux * vz
        cz == ux * vy - uy * vx
        k  == (Max(Abs(cx), Max(Abs(cy), Abs(cz))) \div 10000) + 1
        nx == RDiv(cx, k)  ny == RDiv(cy, k)  nz == RDiv(cz, k)
        m  == ISqrt(nx * nx + ny * ny + nz * nz)
    IN  IF m = 0
        THEN Surface(id, <<p1, p2, p3, p4>>, Vec3f(0, 0, 0), st)
        ELSE Surface(id, <<p1, p2, p3, p4>>,
                     Vec3f(RDiv(nx * NS, m), RDiv(ny * NS, m), RDiv(nz * NS, m)),
                     st)

make_ground(id, x, z, w, d, y, st) ==
    LET hw == RDiv(w, 2)  hd == RDiv(d, 2)
    IN  make_quad(id, Vec3f(x-hw, y, z-hd), Vec3f(x+hw, y, z-hd),
                      Vec3f(x+hw, y, z+hd), Vec3f(x-hw, y, z+hd), st)

make_slope(id, x1, y1, z1, x2, y2, z2, w, st) ==
    LET hw == RDiv(w, 2)
    IN  make_quad(id, Vec3f(x1-hw, y1, z1), Vec3f(x1+hw, y1, z1),
                      Vec3f(x2+hw, y2, z2), Vec3f(x2-hw, y2, z2), st)

----------------------------------------------------------------------------
(* Collision                                                               *)

\* min and max of a coordinate over the four vertices
Min4(a, b, c, d) == Min(Min(a, b), Min(c, d))
Max4(a, b, c, d) == Max(Max(a, b), Max(c, d))

MinX(s) == Min4(s.verts[1].x, s.verts[2].x, s.verts[3].x, s.verts[4].x)
MaxX(s) == Max4(s.verts[1].x, s.verts[2].x, s.verts[3].x, s.verts[4].x)
MinY(s) == Min4(s.verts[1].y, s.verts[2].y, s.verts[3].y, s.verts[4].y)
MaxY(s) == Max4(s.verts[1].y, s.verts[2].y, s.verts[3].y, s.verts[4].y)
MinZ(s) == Min4(s.verts[1].z, s.verts[2].z, s.verts[3].z, s.verts[4].z)
MaxZ(s) == Max4(s.verts[1].z, s.verts[2].z, s.verts[3].z, s.verts[4].z)

\* the height of the plane of s at (x, z): sy = d / ny
PlaneY(s, x, z) ==
    LET p1 == s.verts[1]
        d  == -(x * s.normal.x + z * s.normal.z
                - (s.normal.x * p1.x + s.normal.y * p1.y + s.normal.z * p1.z))
    IN  RDiv(d, s.normal.y)

FloorAcceptsNoCeiling(h, sy, y) == h < sy

FloorAcceptsTies(h, sy, y) == h <= sy /\ sy <= y + 150 * FX

\* the test `h < sy <= y + 150' that makes s the new best floor
FloorAccepts(h, sy, y) == h < sy /\ sy <= y + 150 * FX

RECURSIVE find_floor_from(_, _, _, _, _, _, _)
find_floor_from(S, i, h, fl, x, y, z) ==
    IF i > Len(S) THEN [h |-> h, fl |-> fl]
    ELSE LET s == S[i] IN
         IF \/ x < MinX(s) - 10 * FX \/ x > MaxX(s) + 10 * FX
            \/ z < MinZ(s) - 10 * FX \/ z > MaxZ(s) + 10 * FX
         THEN find_floor_from(S, i + 1, h, fl, x, y, z)
         ELSE IF Abs(s.normal.y) < NS \div 100
         THEN find_floor_from(S, i + 1, h, fl, x, y, z)
         ELSE IF FloorAccepts(h, PlaneY(s, x, z), y)
         THEN find_floor_from(S, i + 1, PlaneY(s, x, z), s, x, y, z)
         ELSE find_floor_from(S, i + 1, h, fl, x, y, z)

find_floor(S, x, y, z) == find_floor_from(S, 1, -11000 * FX, None, x, y, z)

RECURSIVE find_wall_from(_, _, _, _, _, _, _)
find_wall_from(S, i, x, y, z, tx, tz) ==
    IF i > Len(S) THEN None
    ELSE LET s  == S[i]
             p1 == s.verts[1]
             d1 == (x - p1.x) * s.normal.x + (z - p1.z) * s.normal.z
             d2 == (tx - p1.x) * s.normal.x + (tz - p1.z) * s.normal.z
         IN  IF Abs(s.normal.y) > (7 * NS) \div 10
             THEN find_wall_from(S, i + 1, x, y, z, tx, tz)
             ELSE IF y < MinY(s) - 10 * FX \/ y > MaxY(s) + 10 * FX
             THEN find_wall_from(S, i + 1, x, y, z, tx, tz)
             ELSE IF d1 > 0 /\ d2 <= 0 THEN s
             ELSE find_wall_from(S, i + 1, x, y, z, tx, tz)

find_wall_short(S, x, y, z, dx, dz) ==
    find_wall_from(S, 1, x, y, z, x + RDiv(dx * FX, NS), z + RDiv(dz * FX, NS))

\* dx, dz are in units of 1/NS
find_wall(S, x, y, z, dx, dz) ==
    find_wall_from(S, 1, x, y, z, x + RDiv(dx * 2 * FX, NS), z + RDiv(dz * 2 * FX, NS))

----------------------------------------------------------------------------
(* Physics steps                                                           *)

update_air_unclamped(m) ==
    LET f == RDiv(m.fvel * AIR_DRAG, 100)
    IN  [m EXCEPT !.fvel = f,
                  !.vel = Vec3f(RDiv(f * sins(m.face), NS), m.vel.y + GRAVITY,
                                RDiv(f * coss(m.face), NS))]

update_air(m) ==
    LET f  == RDiv(m.fvel * AIR_DRAG, 100)
        vy == m.vel.y + GRAVITY
    IN  [m EXCEPT !.fvel = f,
                  !.vel = Vec3f(RDiv(f * sins(m.face), NS),
                                IF vy < MAX_FALL THEN MAX_FALL ELSE vy,
                                RDiv(f * coss(m.face), NS))]

set_fvel(m, s) ==
    [m EXCEPT !.fvel = s,
              !.vel = Vec3f(RDiv(s * sins(m.face), NS), m.vel.y,
                            RDiv(s * coss(m.face), NS))]

ground_step_high(m, S) ==
    LET x  == m.pos.x + m.vel.x
        z  == m.pos.z + m.vel.z
        ff == find_floor(S, x, m.pos.y + 200 * FX, z)
        m1 == [m EXCEPT !.pos = Vec3f(x, m.pos.y, z),
                        !.floor = ff.fl, !.floor_y = ff.h]
    IN  IF m1.pos.y > ff.h + 10 * FX THEN [m |-> m1, r |-> "air"]
        ELSE [m |-> [m1 EXCEPT !.pos.y = ff.h], r |-> "ground"]

ground_step(m, S) ==
    LET x  == m.pos.x + m.vel.x
        z  == m.pos.z + m.vel.z
        ff == find_floor(S, x, m.pos.y + 100 * FX, z)
        m1 == [m EXCEPT !.pos = Vec3f(x, m.pos.y, z),
                        !.floor = ff.fl, !.floor_y = ff.h]
    IN  IF m1.pos.y > ff.h + 10 * FX THEN [m |-> m1, r |-> "air"]
        ELSE [m |-> [m1 EXCEPT !.pos.y = ff.h], r |-> "ground"]

RECURSIVE air_step_from(_, _, _, _, _, _)
air_step_from(m, S, k, qx, qy, qz) ==
    IF k = 0 THEN [m |-> m, r |-> "air"]
    ELSE LET p  == Vec3f(m.pos.x + qx, m.pos.y + qy, m.pos.z + qz)
             ff == find_floor(S, p.x, p.y, p.z)
             m1 == [m EXCEPT !.pos = p, !.floor = ff.fl, !.floor_y = ff.h]
             w  == find_wall(S, p.x, p.y + 50 * FX, p.z, sins(m.face), coss(m.face))
         IN  IF p.y <= ff.h
             THEN [m |-> [m1 EXCEPT !.pos.y = ff.h], r |-> "land"]
             ELSE IF w # None
             THEN [m |-> [m1 EXCEPT !.wall = w, !.vel.x = 0, !.vel.z = 0,
                                    !.fvel = 0],
                   r |-> "wall"]
             ELSE air_step_from(m1, S, k - 1, qx, qy, qz)

air_step_whole(m, S) == air_step_from(m, S, 1, m.vel.x, m.vel.y, m.vel.z)

air_step(m, S) ==
    air_step_from(m, S, 4, RDiv(m.vel.x, 4), RDiv(m.vel.y, 4), RDiv(m.vel.z, 4))

----------------------------------------------------------------------------
(* Action handlers.  Each takes the MarioState m, the Controller c and the *)
(* surface list S and yields the MarioState it leaves.                     *)

LandIdle(m, c) == set_act(m, ACT_IDLE)

\* m.set_act(ACT_WALKING if c.stick_mag > 0 else ACT_IDLE)
Land(m, c) == set_act(m, IF c.stick_mag > 0 THEN ACT_WALKING ELSE ACT_IDLE)

Tick(m) == [m EXCEPT !.atimer = @ + 1]

Stop(m) == [m EXCEPT !.fvel = 0, !.vel.x = 0, !.vel.z = 0]

a_idle(m, c, S) ==
    LET m0 == Stop(m) IN
    IF HasBit(c.pressed, IN_A) THEN set_act([m0 EXCEPT !.jcount = 0], ACT_JUMP)
    ELSE IF HasBit(c.pressed, IN_Z) THEN set_act(m0, ACT_CROUCH_IDLE)
    ELSE IF HasBit(c.pressed, IN_B) THEN set_act(m0, ACT_PUNCHING)
    ELSE IF c.stick_mag > 0 THEN set_act(m0, ACT_WALKING)
    ELSE ground_step(m0, S).m

\* the branch of a_walk taken on a jump press
WalkJump(m, c) ==
    IF m.fvel > 10 * FX /\ HasBit(c.down, IN_Z_D) THEN set_act(m, ACT_LONG_JUMP)
    ELSE LET m1 == [m EXCEPT !.jtimer = 5, !.jcount = @ + 1] IN
         IF m1.jcount >= 3 /\ m1.fvel > 15 * FX THEN set_act(m1, ACT_TRIPLE_JUMP)
         ELSE IF m1.jcount >= 2 THEN set_act(m1, ACT_DOUBLE_JUMP)
         ELSE set_act(m1, ACT_JUMP)

\* the end of a_walk: the jump timer counts down, and the jump counter is
\* cleared on a tick that finds the timer at 0
WalkDecay(m) ==
    IF m.jtimer > 0 THEN [m EXCEPT !.jtimer = @ - 1] ELSE [m EXCEPT !.jcount = 0]

\* the branch of a_walk taken on an attack press
WalkAttack(m) ==
    IF m.fvel > 8 * FX THEN set_act(m, ACT_SLIDE_KICK) ELSE set_act(m, ACT_PUNCHING)

\* the branch of a_walk taken with neither press
WalkMove(m, c, S) ==
    IF c.stick_mag = 0 THEN set_act(m, ACT_DECELERATING)
    ELSE LET tgt == c.stick_mag * MAX_WALK
             f   == IF m.fvel < tgt THEN Min(m.fvel + (3 * FX) \div 2, tgt)
                    ELSE Max(m.fvel - FX, tgt)
             m1  == set_fvel([m EXCEPT !.face = approach_angle(m.face, m.iyaw, 1125)], f)
             gs  == ground_step(m1, S)
         IN  WalkDecay(IF gs.r = "air" THEN set_act(gs.m, ACT_FREEFALL) ELSE gs.m)

a_walk_attack_first(m, c, S) ==
    IF HasBit(c.pressed, IN_B) THEN WalkAttack(m)
    ELSE IF HasBit(c.pressed, IN_A) THEN WalkJump(m, c)
    ELSE WalkMove(m, c, S)

a_walk(m, c, S) ==
    IF HasBit(c.pressed, IN_A) THEN WalkJump(m, c)
    ELSE IF HasBit(c.pressed, IN_B) THEN WalkAttack(m)
    ELSE WalkMove(m, c, S)

a_decel(m, c, S) ==
    IF HasBit(c.pressed, IN_A)
    THEN (IF m.fvel > 8 * FX THEN set_act(m, ACT_SIDE_FLIP) ELSE set_act(m, ACT_JUMP))
    ELSE IF HasBit(c.pressed, IN_B) THEN set_act(m, ACT_PUNCHING)
    ELSE IF c.stick_mag > 0 THEN set_act(m, ACT_WALKING)
    ELSE LET m1 == set_fvel(m, approach_f32(m.fvel, 0, 2 * FX))
             m2 == IF Abs(m1.fvel) < FX \div 2 THEN set_act(m1, ACT_IDLE) ELSE m1
         IN  ground_step(m2, S).m

a_crouch(m, c, S) ==
    LET m0 == Stop(m) IN
    IF ~HasBit(c.down, IN_Z_D) THEN set_act(m0, ACT_IDLE)
    ELSE IF HasBit(c.pressed, IN_A) THEN set_act(m0, ACT_BACKFLIP)
    ELSE ground_step(m0, S).m

\* the common end of a_punch, a_punch2 and a_kick: a lunge at speed v while
\* the timer is below t0, then a slow-down by dec, then a ground step
Lunge(m, S, t0, v, dec) ==
    LET m1 == IF m.atimer < t0 THEN set_fvel(m, v)
              ELSE set_fvel(m, approach_f32(m.fvel, 0, dec))
    IN  ground_step(m1, S).m

a_punch(m, c, S) ==
    LET m1 == Tick(m) IN
    IF m1.atimer > 8 /\ HasBit(c.pressed, IN_B) /\ m1.punch_state = 0
    THEN set_act([m1 EXCEPT !.punch_state = 1], ACT_PUNCH2)
    ELSE IF m1.atimer > 8 /\ HasBit(c.pressed, IN_B) /\ m1.punch_state = 1
    THEN set_act([m1 EXCEPT !.punch_state = 2], ACT_KICK)
    ELSE LET m2 == IF m1.atimer > 20
                   THEN set_act([m1 EXCEPT !.punch_state = 0], ACT_IDLE)
                   ELSE m1
         IN  Lunge(m2, S, 5, 8 * FX, 2 * FX)

a_punch2(m, c, S) ==
    LET m1 == Tick(m) IN
    IF m1.atimer > 8 /\ HasBit(c.pressed, IN_B)
    THEN set_act([m1 EXCEPT !.punch_state = 2], ACT_KICK)
    ELSE LET m2 == IF m1.atimer > 20
                   THEN set_act([m1 EXCEPT !.punch_state = 0], ACT_IDLE)
                   ELSE m1
         IN  Lunge(m2, S, 5, 10 * FX, 2 * FX)

a_kick(m, c, S) ==
    LET m1 == Tick(m)
        m2 == IF m1.atimer > 25
              THEN set_act([m1 EXCEPT !.punch_state = 0], ACT_IDLE)
              ELSE m1
    IN  Lunge(m2, S, 8, 15 * FX, (3 * FX) \div 2)

LaunchLate(m, v) == IF m.atimer <= 1 THEN [m EXCEPT !.vel.y = v] ELSE m

\* `if m.atimer == 0: m.vel.y = v', the launch on the first tick of an action
Launch(m, v) == IF m.atimer = 0 THEN [m EXCEPT !.vel.y = v] ELSE m

\* update_air(m); r = air_step(m)
AirMove(m, S) == air_step(update_air(m), S)

a_jump(m, c, S) ==
    LET m1 == Launch(m, JUMP_VEL + RDiv(Abs(m.fvel), 4)) IN
    IF HasBit(c.pressed, IN_Z) THEN set_act(m1, ACT_GROUND_POUND)
    ELSE IF HasBit(c.pressed, IN_B) THEN set_act(m1, ACT_DIVE)
    ELSE LET a == AirMove(m1, S) IN
         Tick(IF a.r = "land" THEN Land(a.m, c)
              ELSE IF a.r = "wall" THEN set_act([a.m EXCEPT !.wktimer = 5], ACT_FREEFALL)
              ELSE a.m)

a_dbl(m, c, S) ==
    LET m1 == Launch(m, DBL_JUMP_VEL + RDiv(Abs(m.fvel), 5)) IN
    IF HasBit(c.pressed, IN_Z) THEN set_act(m1, ACT_GROUND_POUND)
    ELSE IF HasBit(c.pressed, IN_B) THEN set_act(m1, ACT_DIVE)
    ELSE LET a == AirMove(m1, S) IN
         Tick(IF a.r = "land" THEN Land(a.m, c)
              ELSE IF a.r = "wall" THEN set_act([a.m EXCEPT !.wktimer = 5], ACT_FREEFALL)
              ELSE a.m)

TripleLaunchWithSpeed(m) == Launch(m, TRIPLE_VEL + RDiv(Abs(m.fvel), 4))

\* the launch of a_triple: no forward-speed term
TripleLaunch(m) == Launch(m, TRIPLE_VEL)

a_triple(m, c, S) ==
    LET m1 == TripleLaunch(m) IN
    IF HasBit(c.pressed, IN_Z) THEN set_act(m1, ACT_GROUND_POUND)
    ELSE LET a == AirMove(m1, S) IN
         Tick(IF a.r = "land" THEN Land(a.m, c) ELSE a.m)

a_backflip(m, c, S) ==
    LET m1 == IF m.atimer = 0
              THEN set_fvel([m EXCEPT !.vel.y = BACKFLIP_VEL], -10 * FX)
              ELSE m
        a  == AirMove(m1, S)
    IN  Tick(IF a.r = "land" THEN set_act([a.m EXCEPT !.fvel = 0], ACT_IDLE) ELSE a.m)

a_sideflip(m, c, S) ==
    LET m1 == IF m.atimer = 0
              THEN set_fvel([m EXCEPT !.vel.y = SIDEFLIP_VEL,
                                      !.face = (@ + 180 * AS) % (360 * AS)], 8 * FX)
              ELSE m
        a  == AirMove(m1, S)
    IN  Tick(IF a.r = "land" THEN set_act(a.m, ACT_IDLE) ELSE a.m)

a_longjump(m, c, S) ==
    LET m1 == IF m.atimer = 0
              THEN set_fvel([m EXCEPT !.vel.y = LONGJUMP_VEL],
                            Min(RDiv(m.fvel * 3, 2), 48 * FX))
              ELSE m
        a  == AirMove(m1, S)
    IN  Tick(IF a.r = "land" THEN set_act([a.m EXCEPT !.fvel = 0], ACT_IDLE) ELSE a.m)

a_freefall_pound_first(m, c, S) ==
    IF HasBit(c.pressed, IN_Z) THEN set_act(m, ACT_GROUND_POUND)
    ELSE IF HasBit(c.pressed, IN_A) /\ m.wktimer > 0
    THEN set_act(set_fvel([m EXCEPT !.face = (@ + 180 * AS) % (360 * AS)], 24 * FX),
                 ACT_WALL_KICK)
    ELSE IF HasBit(c.pressed, IN_B) THEN set_act(m, ACT_DIVE)
    ELSE LET a  == AirMove(m, S)
             m1 == IF a.r = "land" THEN Land(a.m, c)
                   ELSE IF a.r = "wall" THEN [a.m EXCEPT !.wktimer = 5]
                   ELSE a.m
             m2 == IF m1.wktimer > 0 THEN [m1 EXCEPT !.wktimer = @ - 1] ELSE m1
         IN  Tick(m2)

a_freefall(m, c, S) ==
    IF HasBit(c.pressed, IN_A) /\ m.wktimer > 0
    THEN set_act(set_fvel([m EXCEPT !.face = (@ + 180 * AS) % (360 * AS)], 24 * FX),
                 ACT_WALL_KICK)
    ELSE IF HasBit(c.pressed, IN_Z) THEN set_act(m, ACT_GROUND_POUND)
    ELSE IF HasBit(c.pressed, IN_B) THEN set_act(m, ACT_DIVE)
    ELSE LET a  == AirMove(m, S)
             m1 == IF a.r = "land" THEN Land(a.m, c)
                   ELSE IF a.r = "wall" THEN [a.m EXCEPT !.wktimer = 5]
                   ELSE a.m
             m2 == IF m1.wktimer > 0 THEN [m1 EXCEPT !.wktimer = @ - 1] ELSE m1
         IN  Tick(m2)

a_wallkick(m, c, S) ==
    LET a == AirMove(Launch(m, WALL_KICK_VEL), S)
    IN  Tick(IF a.r = "land" THEN Land(a.m, c) ELSE a.m)

a_dive(m, c, S) ==
    LET m1 == IF m.atimer = 0
              THEN set_fvel([m EXCEPT !.vel.y = DIVE_VEL], Max(m.fvel, 32 * FX))
              ELSE m
        a  == AirMove(m1, S)
    IN  Tick(IF a.r = "land" THEN set_act(a.m, ACT_BELLY_SLIDE) ELSE a.m)

\* the common end of a_belly and a_slide_kick_slide
Slide(m, S, dec) ==
    LET m1 == set_fvel(m, approach_f32(m.fvel, 0, dec))
        m2 == IF Abs(m1.fvel) < FX THEN set_act(m1, ACT_IDLE) ELSE m1
    IN  ground_step(m2, S).m

a_belly(m, c, S) ==
    IF HasBit(c.pressed, IN_A) THEN set_act(m, ACT_JUMP) ELSE Slide(m, S, FX)

a_slide_kick(m, c, S) ==
    LET m1 == IF m.atimer = 0
              THEN set_fvel([m EXCEPT !.vel.y = 10 * FX], Max(m.fvel, 28 * FX))
              ELSE m
        a  == AirMove(m1, S)
    IN  Tick(IF a.r = "land" THEN set_act(a.m, ACT_SLIDE_KICK_SL) ELSE a.m)

a_slide_kick_slide(m, c, S) ==
    IF HasBit(c.pressed, IN_A) THEN set_act(m, ACT_JUMP)
    ELSE Slide(m, S, (8 * FX) \div 10)

a_gp(m, c, S) ==
    IF m.astate = 0
    THEN LET m1 == Tick([Stop(m) EXCEPT !.vel.y = 0]) IN
         IF m1.atimer > 10 THEN [m1 EXCEPT !.astate = 1, !.vel.y = GP_FALL_VEL]
         ELSE m1
    ELSE LET a == air_step(m, S) IN
         IF a.r = "land" THEN set_act(a.m, ACT_GP_LAND) ELSE a.m

a_gpl_early(m, c, S) ==
    LET m1 == Tick(m) IN
    IF m1.atimer > 4
    THEN (IF HasBit(c.pressed, IN_A) THEN set_act(m1, ACT_JUMP)
          ELSE IF c.stick_mag > 0 THEN set_act(m1, ACT_WALKING)
          ELSE IF m1.atimer > 15 THEN set_act(m1, ACT_IDLE)
          ELSE m1)
    ELSE m1

a_gpl(m, c, S) ==
    LET m1 == Tick(m) IN
    IF m1.atimer > 5
    THEN (IF HasBit(c.pressed, IN_A) THEN set_act(m1, ACT_JUMP)
          ELSE IF c.stick_mag > 0 THEN set_act(m1, ACT_WALKING)
          ELSE IF m1.atimer > 15 THEN set_act(m1, ACT_IDLE)
          ELSE m1)
    ELSE m1

a_knock(m, c, S) ==
    LET m1 == IF m.atimer = 0
              THEN set_fvel([m EXCEPT !.vel.y = KNOCKBACK_VEL], -20 * FX)
              ELSE m
        a  == AirMove(m1, S)
    IN  Tick(IF a.r = "land" THEN set_act([a.m EXCEPT !.fvel = 0], ACT_IDLE) ELSE a.m)

a_lava(m, c, S) ==
    LET m1 == IF m.atimer = 0
              THEN take_dmg([Stop(m) EXCEPT !.vel.y = LAVA_BOOST_VEL], 256)
              ELSE m
        a  == AirMove(m1, S)
    IN  Tick(IF a.r = "land" THEN set_act(a.m, ACT_IDLE) ELSE a.m)

a_star_stay(m, c, S) == Tick([Stop(m) EXCEPT !.vel.y = 0])

a_star(m, c, S) ==
    LET m1 == Tick([Stop(m) EXCEPT !.vel.y = 0])
    IN  IF m1.atimer > 90 THEN set_act(m1, ACT_IDLE) ELSE m1

a_death(m, c, S) ==
    LET m1 == [Stop(m) EXCEPT !.vel.y = Max(m.vel.y + GRAVITY, MAX_FALL)]
    IN  [m1 EXCEPT !.pos.y = @ + m1.vel.y]

\* ACT_MAP, with the handlers named by strings
ACT_MAP ==
    (ACT_IDLE :> "a_idle") @@ (ACT_WALKING :> "a_walk")
    @@ (ACT_DECELERATING :> "a_decel") @@ (ACT_CROUCH_IDLE :> "a_crouch")
    @@ (ACT_PUNCHING :> "a_punch") @@ (ACT_PUNCH2 :> "a_punch2")
    @@ (ACT_KICK :> "a_kick") @@ (ACT_JUMP :> "a_jump")
    @@ (ACT_DOUBLE_JUMP :> "a_dbl") @@ (ACT_TRIPLE_JUMP :> "a_triple")
    @@ (ACT_BACKFLIP :> "a_backflip") @@ (ACT_SIDE_FLIP :> "a_sideflip")
    @@ (ACT_LONG_JUMP :> "a_longjump") @@ (ACT_WALL_KICK :> "a_wallkick")
    @@ (ACT_FREEFALL :> "a_freefall") @@ (ACT_DIVE :> "a_dive")
    @@ (ACT_BELLY_SLIDE :> "a_belly") @@ (ACT_SLIDE_KICK :> "a_slide_kick")
    @@ (ACT_SLIDE_KICK_SL :> "a_slide_kick_slide")
    @@ (ACT_GROUND_POUND :> "a_gp") @@ (ACT_GP_LAND :> "a_gpl")
    @@ (ACT_KNOCKBACK :> "a_knock") @@ (ACT_LAVA_BOOST :> "a_lava")
    @@ (ACT_STAR_DANCE :> "a_star") @@ (ACT_DEATH :> "a_death")

\* the call fn(mario, ctrl) of a handler of ACT_MAP
Call(fn, m, c, S) ==
    CASE fn = "a_idle" -> a_idle(m, c, S)
      [] fn = "a_walk" -> a_walk(m, c, S)
      [] fn = "a_decel" -> a_decel(m, c, S)
      [] fn = "a_crouch" -> a_crouch(m, c, S)
      [] fn = "a_punch" -> a_punch(m, c, S)
      [] fn = "a_punch2" -> a_punch2(m, c, S)
      [] fn = "a_kick" -> a_kick(m, c, S)
      [] fn = "a_jump" -> a_jump(m, c, S)
      [] fn = "a_dbl" -> a_dbl(m, c, S)
      [] fn = "a_triple" -> a_triple(m, c, S)
      [] fn = "a_backflip" -> a_backflip(m, c, S)
      [] fn = "a_sideflip" -> a_sideflip(m, c, S)
      [] fn = "a_longjump" -> a_longjump(m, c, S)
      [] fn = "a_wallkick" -> a_wallkick(m, c, S)
      [] fn = "a_freefall" -> a_freefall(m, c, S)
      [] fn = "a_dive" -> a_dive(m, c, S)
      [] fn = "a_belly" -> a_belly(m, c, S)
      [] fn = "a_slide_kick" -> a_slide_kick(m, c, S)
      [] fn = "a_slide_kick_slide" -> a_slide_kick_slide(m, c, S)
      [] fn = "a_gp" -> a_gp(m, c, S)
      [] fn = "a_gpl" -> a_gpl(m, c, S)
      [] fn = "a_knock" -> a_knock(m, c, S)
      [] fn = "a_lava" -> a_lava(m, c, S)
      [] fn = "a_star" -> a_star(m, c, S)
      [] fn = "a_death" -> a_death(m, c, S)

\* a subscript ACT_MAP[a], which raises KeyError for an id that is no key
LookupStrict(a) == IF a \in DOMAIN ACT_MAP THEN ACT_MAP[a] ELSE "KeyError"

\* fn = ACT_MAP.get(mario.action, a_idle)
Lookup(a) == IF a \in DOMAIN ACT_MAP THEN ACT_MAP[a] ELSE "a_idle"

----------------------------------------------------------------------------
(* Actors                                                                  *)

Obj(type, pos, irange, coins, star_id, dmg, spd) ==
    [type |-> type, pos |-> pos, home |-> pos, irange |-> irange,
     coins |-> coins, star_id |-> star_id, dmg |-> dmg, spd |-> spd,
     hp |-> 1, active |-> TRUE, collected |-> FALSE, timer |-> 0, state |-> 0,
     pdir |-> 1, flash |-> 0]

CoinValue(t) ==
    CASE t = "COIN" -> 1 [] t = "COIN_RED" -> 2 [] t = "COIN_BLUE" -> 5

sp_coin(x, y, z, t) == Obj(t, Vec3f(x, y + 30 * FX, z), 60 * FX, CoinValue(t), 0, 1, 0)

sp_star(x, y, z, sid) == Obj("STAR", Vec3f(x, y + 50 * FX, z), 80 * FX, 0, sid, 1, 0)

sp_1up(x, y, z) == Obj("ONE_UP", Vec3f(x, y + 30 * FX, z), 50 * FX, 0, 0, 1, 0)

sp_goomba(x, y, z) == Obj("GOOMBA", Vec3f(x, y, z), 60 * FX, 0, 0, 1, (3 * FX) \div 2)

Coins == {"COIN", "COIN_RED", "COIN_BLUE"}
Enemies == {"GOOMBA", "BOBOMB", "KOOPA", "PIRANHA"}

\* the horizontal distance d of update_objs, to a tenth of a unit
HDist(dx, dz) == 10 * ISqrt((dx \div 10) * (dx \div 10) + (dz \div 10) * (dz \div 10))

sp_thwomp(x, y, z) == Obj("THWOMP", Vec3f(x, y, z), 80 * FX, 0, 0, 2, 0)

update_thwomp_short_rest(o, m) ==
    IF o.state = 0
    THEN (IF Abs(m.pos.x - o.pos.x) < 100 * FX /\ Abs(m.pos.z - o.pos.z) < 100 * FX
          THEN [o EXCEPT !.state = 1, !.timer = 0] ELSE o)
    ELSE IF o.state = 1
    THEN LET y == approach_f32(o.pos.y, o.home.y - 200 * FX, 15 * FX) IN
         IF y <= o.home.y - 195 * FX THEN [o EXCEPT !.pos.y = y, !.state = 2, !.timer = 0]
         ELSE [o EXCEPT !.pos.y = y]
    ELSE IF o.state = 2
    THEN (IF o.timer + 1 >= 30 THEN [o EXCEPT !.timer = @ + 1, !.state = 3]
          ELSE [o EXCEPT !.timer = @ + 1])
    ELSE IF o.state = 3
    THEN LET y == approach_f32(o.pos.y, o.home.y, 3 * FX) IN
         IF y >= o.home.y - 1 * FX THEN [o EXCEPT !.pos.y = y, !.state = 0]
         ELSE [o EXCEPT !.pos.y = y]
    ELSE o

\* the THWOMP branch of update_objs: wait (0), slam down (1), rest (2),
\* rise (3)
update_thwomp(o, m) ==
    IF o.state = 0
    THEN (IF Abs(m.pos.x - o.pos.x) < 100 * FX /\ Abs(m.pos.z - o.pos.z) < 100 * FX
          THEN [o EXCEPT !.state = 1, !.timer = 0] ELSE o)
    ELSE IF o.state = 1
    THEN LET y == approach_f32(o.pos.y, o.home.y - 200 * FX, 15 * FX) IN
         IF y <= o.home.y - 195 * FX THEN [o EXCEPT !.pos.y = y, !.state = 2, !.timer = 0]
         ELSE [o EXCEPT !.pos.y = y]
    ELSE IF o.state = 2
    THEN (IF o.timer + 1 > 30 THEN [o EXCEPT !.timer = @ + 1, !.state = 3]
          ELSE [o EXCEPT !.timer = @ + 1])
    ELSE IF o.state = 3
    THEN LET y == approach_f32(o.pos.y, o.home.y, 3 * FX) IN
         IF y >= o.home.y - 1 * FX THEN [o EXCEPT !.pos.y = y, !.state = 0]
         ELSE [o EXCEPT !.pos.y = y]
    ELSE o

\* update_objs for one actor.  `s' stands for the value of the sine that
\* bobs a collectible: the program evaluates sin(frame * k + o.bob) with a
\* random phase o.bob, the model lets s be -1, 0 or 1 on every tick.
update_obj(o, m, s) ==
    LET o1 ==
          IF ~o.active THEN o
          ELSE IF o.type \in Coins
          THEN [o EXCEPT !.pos.y = o.home.y + 30 * FX + s * 10 * FX]
          ELSE IF o.type = "STAR"
          THEN [o EXCEPT !.pos.y = o.home.y + 50 * FX + s * 15 * FX]
          ELSE IF o.type = "ONE_UP"
          THEN [o EXCEPT !.pos.y = o.home.y + 30 * FX + s * 8 * FX]
          ELSE IF o.type \in {"GOOMBA", "BOBOMB", "KOOPA"}
          THEN LET dx == m.pos.x - o.pos.x
                   dz == m.pos.z - o.pos.z
                   near == Abs(dx) < 400 * FX /\ Abs(dz) < 400 * FX
                   d  == IF near THEN HDist(dx, dz) ELSE 400 * FX
               IN  IF d < 400 * FX /\ d > 0
                   THEN [o EXCEPT !.pos.x = @ + RDiv(dx * o.spd, d),
                                  !.pos.z = @ + RDiv(dz * o.spd, d)]
                   ELSE LET t == o.timer + 1 IN
                        [o EXCEPT !.timer = t % 120,
                                  !.pos.x = IF t % 120 < 60 THEN @ + o.spd * o.pdir
                                            ELSE @ - o.spd * o.pdir]
          ELSE IF o.type = "THWOMP"
          THEN update_thwomp(o, m)
          ELSE o
    IN  IF o.active /\ o1.flash > 0 THEN [o1 EXCEPT !.flash = @ - 1] ELSE o1

update_objs(O, m, sine) == [i \in 1..Len(O) |-> update_obj(O[i], m, sine[i])]

\* d <= o.irange + 30, with d the distance between the character and o
InRange(m, o) ==
    LET dx == m.pos.x - o.pos.x
        dy == m.pos.y - o.pos.y
        dz == m.pos.z - o.pos.z
        r  == o.irange + 30 * FX
    IN  /\ Abs(dx) <= r /\ Abs(dy) <= r /\ Abs(dz) <= r
        /\ dx * dx + dy * dy + dz * dz <= r * r

IsAttacking(act) ==
    act \in {ACT_PUNCHING, ACT_PUNCH2, ACT_KICK, ACT_SLIDE_KICK, ACT_SLIDE_KICK_SL}

CollectedKeepsActive(o) == [o EXCEPT !.collected = TRUE]

\* o.collected = True; o.active = False
Collected(o) == [o EXCEPT !.collected = TRUE, !.active = FALSE]

\* d < r, with d the distance between the character and o
Within(m, o, r) ==
    LET dx == m.pos.x - o.pos.x
        dy == m.pos.y - o.pos.y
        dz == m.pos.z - o.pos.z
    IN  /\ Abs(dx) < r /\ Abs(dy) < r /\ Abs(dz) < r
        /\ dx * dx + dy * dy + dz * dz < r * r

\* the body of the loop of interact_objs for the actor o: the pair of the
\* MarioState and the actor it leaves.  is_attacking is the flag computed
\* on entry of interact_objs.
interact_obj(m, o, lvl, is_attacking) ==
    IF ~o.active \/ o.collected THEN [m |-> m, o |-> o]
    ELSE IF ~InRange(m, o) THEN [m |-> m, o |-> o]
    ELSE IF o.type \in Coins
    THEN [m |-> heal([m EXCEPT !.coins = @ + o.coins], 64 * o.coins),
          o |-> Collected(o)]
    ELSE IF o.type = "STAR"
    THEN (IF ~has_star(m, lvl, o.star_id)
          THEN [m |-> set_act(get_star(m, lvl, o.star_id), ACT_STAR_DANCE),
                o |-> Collected(o)]
          ELSE [m |-> m, o |-> o])
    ELSE IF o.type = "ONE_UP"
    THEN [m |-> [m EXCEPT !.lives = @ + 1], o |-> Collected(o)]
    ELSE IF o.type \in Enemies
    THEN (IF m.vel.y < -5 * FX /\ m.pos.y > o.pos.y + 20 * FX
          THEN [m |-> [m EXCEPT !.vel.y = 30 * FX, !.coins = @ + 1],
                o |-> [o EXCEPT !.active = FALSE]]
          ELSE IF m.action \in {ACT_DIVE, ACT_GP_LAND} \/ is_attacking
          THEN [m |-> [m EXCEPT !.coins = @ + 1], o |-> [o EXCEPT !.active = FALSE]]
          ELSE [m |-> set_act(take_dmg(m, 256 * o.dmg), ACT_KNOCKBACK), o |-> o])
    ELSE IF o.type = "THWOMP"
    THEN (IF o.state = 1 /\ Within(m, o, o.irange)
          THEN [m |-> set_act(take_dmg(m, 512), ACT_KNOCKBACK), o |-> o]
          ELSE [m |-> m, o |-> o])
    ELSE [m |-> m, o |-> o]

\* interact_objs: the actors are visited in list order
RECURSIVE interact_from(_, _, _, _, _)
interact_from(m, O, i, lvl, is_attacking) ==
    IF i > Len(O) THEN [m |-> m, objs |-> O]
    ELSE LET r == interact_obj(m, O[i], lvl, is_attacking)
         IN  interact_from(r.m, [O EXCEPT ![i] = r.o], i + 1, lvl, is_attacking)

interact_objs(m, O, lvl) == interact_from(m, O, 1, lvl, IsAttacking(m.action))

----------------------------------------------------------------------------
(* Levels.  A level is the triple of surfaces, actors and start position   *)
(* that load_level and LI supply.  LVL_PLANE is one 4000 x 4000 floor at   *)
(* height 0, like the first surface of every course; LVL_YARD is the same  *)
(* floor with actors on it; LVL_LAVA is the same floor, of type SURF_LAVA. *)

LVL_PLANE == 27
LVL_YARD == 28
LVL_LAVA == 29
LVL_COURSE == 30
LVL_HAZARD == 31

PlaneSurfs == << make_ground(1, 0, 0, 4000 * FX, 4000 * FX, 0, SURF_DEFAULT) >>

LavaSurfs == << make_ground(1, 0, 0, 4000 * FX, 4000 * FX, 0, SURF_LAVA) >>

\* the actors of LVL_YARD, all on the vertical through the start position,
\* from the top down: a blue coin, a 1-up and a star
YardObjs ==
    << sp_coin(0, 140 * FX, 0, "COIN_BLUE"), sp_1up(0, 40 * FX, 0),
       sp_star(0, -40 * FX, 0, 0) >>

\* LvlInfo.start
LevelStart(lid) == Vec3f(0, 200 * FX, 0)

\* the state main() leaves after load_level: position, velocity, speed,
\* action, health, coins and punch_state are set, everything else is kept
EnterLevel(m, lid) ==
    [m EXCEPT !.pos = LevelStart(lid), !.vel = Vec3f(0, 0, 0), !.fvel = 0,
              !.action = ACT_FREEFALL, !.health = 2176, !.coins = 0,
              !.punch_state = 0]

----------------------------------------------------------------------------
(* Input                                                                   *)

Keys == {"SPACE", "x", "z", "dir"}

Bit(b, mask) == IF b THEN mask ELSE 0

\* the Controller that main() fills from the keys held (keys) and the keys
\* that went down since the last frame (kp)
ReadInput(keys, kp) ==
    [pressed |-> Bit("SPACE" \in keys \cup kp, IN_A) + Bit("x" \in keys \cup kp, IN_B)
                 + Bit("z" \in keys \cup kp, IN_Z),
     down    |-> Bit("SPACE" \in keys, IN_A_D) + Bit("z" \in keys, IN_Z_D),
     stick_mag |-> IF "dir" \in keys THEN 1 ELSE 0]

\* the input frames the keyboard can produce
InputFrames ==
    {ReadInput(keys, kp) : keys \in SUBSET Keys, kp \in SUBSET {"SPACE", "x", "z"}}

\* the frames of a player who uses the jump key, the crouch key and the stick
PlayFrames == {ReadInput(keys, {}) : keys \in SUBSET {"SPACE", "z", "dir"}}

\* mario.iyaw and mario.imag: the direction key pressed is the one that
\* points where the character faces
Intend(m, c) ==
    IF c.stick_mag > 0 THEN [m EXCEPT !.iyaw = m.face, !.imag = MAX_WALK]
    ELSE [m EXCEPT !.imag = 0]

----------------------------------------------------------------------------
(* The logic tick of main()                                                *)

\* the floor effects after the handler
FloorEffects(m) ==
    IF m.floor = None THEN m
    ELSE IF m.floor.stype = SURF_LAVA /\ m.action \notin {ACT_LAVA_BOOST, ACT_KNOCKBACK}
    THEN set_act(m, ACT_LAVA_BOOST)
    ELSE IF m.floor.stype = SURF_DEATH
    THEN [m EXCEPT !.pos = Vec3f(0, 200 * FX, 0), !.vel = Vec3f(0, 0, 0)]
    ELSE m

TimersTwice(m) ==
    [m EXCEPT !.inv = IF @ > 1 THEN @ - 2 ELSE 0,
              !.hurt = IF @ > 0 THEN @ - 1 ELSE @]

\* the invulnerability and hurt timers count down after the handler
Timers(m) ==
    [m EXCEPT !.inv = IF @ > 0 THEN @ - 1 ELSE @,
              !.hurt = IF @ > 0 THEN @ - 1 ELSE @]

\* the respawn after a fall out of the level
FallOut(m, lid) ==
    IF m.pos.y < -3000 * FX
    THEN take_dmg([m EXCEPT !.pos = LevelStart(lid), !.vel = Vec3f(0, 0, 0),
                            !.fvel = 0, !.action = ACT_FREEFALL], 256)
    ELSE m

HealthCheck_twice(m) == IF m.health <= 0 THEN [m EXCEPT !.lives = @ - 2] ELSE m

\* the health check: a life is lost and the session enters DEATH
HealthCheck(m) == IF m.health <= 0 THEN [m EXCEPT !.lives = @ - 1] ELSE m

\* on LVL_PLANE the character is mapped back to the centre of the floor
Recentre(m, lid) ==
    IF lid = LVL_PLANE THEN [m EXCEPT !.pos.x = 0, !.pos.z = 0] ELSE m

\* update_objs, then interact_objs
TickObjs(m, O, lid, sine) == interact_objs(m, update_objs(O, m, sine), lid)

\* the tick up to and including interact_objs: the handler, the timers, the
\* floor effects, the actors
TickCore(m, c, O, S, lid, sine) ==
    TickObjs(FloorEffects(Timers(Call(Lookup(m.action), Intend(m, c), c, S))),
             O, lid, sine)

MaxJCount == 4
MaxLives == 5
MaxRun == 22
MaxGap == 60

\* the actions whose handlers end a flight with Land
LandActs == {ACT_JUMP, ACT_DOUBLE_JUMP, ACT_TRIPLE_JUMP, ACT_FREEFALL, ACT_WALL_KICK}

\* History of the session, kept beside the program's state for the
\* properties that speak about more than one tick.  m is the MarioState a
\* tick starts from, c its input frame, and the record describes the tick:
\*   act, c  the action the tick dispatched on and its input frame
\*   nrun    the number of consecutive ticks, this one included, dispatched
\*           on act
\*   fvel0   the forward speed at the start of the first tick of that run
\*   wtick   k if this is the k-th consecutive walking tick after a landing
\*           into walking, 0 if the tick is that landing, else -1
\*   rest    the number of consecutive ticks, this one included, dispatched
\*           on idle or decelerating
\*   since   the number of ticks since the last tick in which the health
\*           went down, 0 if it went down in this tick; MaxGap stands for
\*           MaxGap or more, and for `never'
\*   rested  whether, when the tick started, the character had spent more
\*           than 5 consecutive ticks in idle or decelerating since the
\*           last tick that took it from walking into a jump
Observe(h, m, c, m1) ==
    [act    |-> m.action,
     c      |-> c,
     nrun   |-> IF h.act = m.action THEN Min(h.nrun + 1, MaxRun) ELSE 1,
     fvel0  |-> IF h.act = m.action THEN h.fvel0 ELSE m.fvel,
     wtick  |-> IF m.action \in LandActs /\ m1.action = ACT_WALKING THEN 0
                ELSE IF m.action = ACT_WALKING /\ h.wtick >= 0
                THEN Min(h.wtick + 1, MaxRun)
                ELSE -1,
     rest   |-> IF m.action \in {ACT_IDLE, ACT_DECELERATING}
                THEN Min(h.rest + 1, MaxRun) ELSE 0,
     since  |-> IF m1.health < m.health THEN 0 ELSE Min(h.since + 1, MaxGap),
     rested |-> \/ h.rest > 5
                \/ /\ h.rested
                   /\ ~(h.act = ACT_WALKING
                        /\ m.action \in {ACT_JUMP, ACT_DOUBLE_JUMP, ACT_TRIPLE_JUMP,
                                         ACT_LONG_JUMP})]

NoHistory ==
    [act |-> 0, c |-> ReadInput({}, {}), nrun |-> 0, fvel0 |-> 0, wtick |-> -1,
     rest |-> 0, since |-> MaxGap, rested |-> FALSE]

\* the end of the tick, from the pair r that interact_objs leaves: the
\* health check and the fall out of the level
TickEnd(r, c) ==
    /\ mario' = Recentre(FallOut(HealthCheck(r.m), cur_lvl), cur_lvl)
    /\ objs' = r.objs
    /\ state' = IF r.m.health <= 0 THEN "DEATH" ELSE "GAMEPLAY"
    /\ hist' = Observe(hist, mario, c, mario')
    /\ mario'.jcount <= MaxJCount
    /\ mario'.lives <= MaxLives

LogicTick(c, sine) ==
    /\ state = "GAMEPLAY"
    /\ IF Lookup(mario.action) = "KeyError"
       THEN /\ state' = "RAISED"
            /\ UNCHANGED <<mario, objs, hist>>
       ELSE TickEnd(TickCore(mario, c, objs, surfs, cur_lvl, sine), c)
    /\ UNCHANGED <<surfs, cur_lvl, probe>>

\* the values of the bob sine for the actors of O: one of -1, 0, 1 for an
\* actor that update_objs moves by it, and 0 for any other
Bobs(o) == IF o.active /\ o.type \in Coins \cup {"STAR", "ONE_UP"} THEN {-1, 0, 1} ELSE {0}

Sines(O) == {f \in [1..Len(O) -> {-1, 0, 1}] : \A i \in 1..Len(O) : f[i] \in Bobs(O[i])}

----------------------------------------------------------------------------
(* The session on LVL_PLANE.  The player first follows one of a few input  *)
(* scripts, frame by frame, and then plays freely for at most MaxFree      *)
(* ticks.                                                                  *)

MaxFree == 10

cN  == ReadInput({}, {})
cS  == ReadInput({"dir"}, {})
cA  == ReadInput({}, {"SPACE"})
cAS == ReadInput({"dir"}, {"SPACE"})

Rep(c, n) == [i \in 1..n |-> c]

\* stand still through the fall from the start position, then one jump
\* press and no further input
StandingJump == Rep(cN, 10) \o <<cA>> \o Rep(cN, 21)

\* hold the stick through the fall and until the walk is at full speed
RunUp == Rep(cS, 32)

\* a running jump, up to its landing
RunJump == RunUp \o <<cAS>> \o Rep(cS, 24)

\* a second jump three walking ticks after that landing, up to its landing
RunJumpJump == RunJump \o Rep(cS, 3) \o <<cAS>> \o Rep(cS, 28)

Scripts == {<< >>, StandingJump, RunUp, RunJump, RunJumpJump}

Init ==
    /\ mario = EnterLevel(MarioState, LVL_PLANE)
    /\ objs = <<>>
    /\ surfs = PlaneSurfs
    /\ cur_lvl = LVL_PLANE
    /\ state = "GAMEPLAY"
    /\ probe = [op |-> "none"]
    /\ hist = NoHistory
    /\ plan \in {[script |-> sc, free |-> 0] : sc \in Scripts}
    /\ ptcl = << >>

ScriptedTick ==
    /\ plan.script # << >>
    /\ LogicTick(Head(plan.script), << >>)
    /\ plan' = [plan EXCEPT !.script = Tail(@)]
    /\ UNCHANGED ptcl

FreeTick(c) ==
    /\ plan.script = << >>
    /\ plan.free < MaxFree
    /\ LogicTick(c, << >>)
    /\ plan' = [plan EXCEPT !.free = @ + 1]
    /\ UNCHANGED ptcl

Next == ScriptedTick \/ \E c \in PlayFrames : FreeTick(c)

Spec == Init /\ [][Next]_vars

----------------------------------------------------------------------------
(* Properties of the jumps, under Spec.  A state predicate below reads     *)
(* hist, the record of the tick that led to the state.                     *)

JumpPressed == hist.act = ACT_WALKING /\ HasBit(hist.c.pressed, IN_A)

\* C5: jump presses handled in walking without the crouch key, starting
\* from a counter of 0 and each made before the counter is cleared, give
\* jump (counter 1), double jump (counter 2) and, with forward speed above
\* 15 at the third press, triple jump (counter 3); the triple jump launches
\* with vertical velocity exactly 69, whatever the forward speed.
C5_TripleJumpChain ==
    /\ (JumpPressed /\ ~HasBit(hist.c.down, IN_Z_D)) =>
          /\ mario.jcount = 1 => mario.action = ACT_JUMP
          /\ mario.jcount = 2 => mario.action = ACT_DOUBLE_JUMP
          /\ (mario.jcount = 3 /\ mario.fvel > 15 * FX) =>
                mario.action = ACT_TRIPLE_JUMP
    /\ (mario.action = ACT_TRIPLE_JUMP /\ mario.atimer = 0) =>
          a_triple(mario, cN, surfs).vel.y = TRIPLE_VEL + GRAVITY
    /\ (mario.action = ACT_TRIPLE_JUMP /\ mario.atimer = 0) =>
          TripleLaunch(mario).vel.y = 69 * FX

\* the third press of a chain has just started a triple jump at speed
C5_Witness ==
    /\ JumpPressed
    /\ mario.action = ACT_TRIPLE_JUMP
    /\ mario.atimer = 0
    /\ mario.jcount = 3
    /\ mario.fvel > 15 * FX
    /\ mario.prev_act = ACT_WALKING

\* C6 (as stated): a jump press on the 6th or a later walking tick after a
\* landing into walking, with no jump press in between, starts a single
\* jump, never a double or triple jump.
C6_PressAfterWindowIsSingle ==
    (JumpPressed /\ hist.wtick >= 6) =>
        mario.action \notin {ACT_DOUBLE_JUMP, ACT_TRIPLE_JUMP}

\* C7 (as stated): a standing jump, launched with forward speed 0 from the
\* floor at height 0, lands in idle after exactly 21 ticks of the jump
\* action.
C7_StandingJumpTakes21 ==
    (hist.act = ACT_JUMP /\ hist.fvel0 = 0 /\ mario.action = ACT_IDLE) =>
        hist.nrun = 21

\* C7 (amended): a standing jump, launched with forward speed 0 from the
\* floor at height 0, is at height 40n - 2n^2 > 0 after n < 20 ticks of the
\* jump action and lands on the 20th, at height 0, in idle when the stick
\* is at rest.
C7_StandingJumpTakes20 ==
    (hist.act = ACT_JUMP /\ hist.fvel0 = 0) =>
        LET n == hist.nrun IN
        IF mario.action = ACT_JUMP
        THEN /\ n < 20
             /\ mario.pos.y = (40 * n - 2 * n * n) * FX
             /\ mario.pos.y > 0
        ELSE (mario.action \in {ACT_IDLE, ACT_WALKING}) =>
                /\ n = 20
                /\ mario.pos.y = 0
                /\ (hist.c.stick_mag = 0 <=> mario.action = ACT_IDLE)

\* a standing jump started from idle has landed in idle
C7_Witness ==
    /\ hist.act = ACT_JUMP
    /\ hist.fvel0 = 0
    /\ mario.action = ACT_IDLE
    /\ mario.prev_act = ACT_JUMP
    /\ mario.pos.y = 0
    /\ hist.c = cN

\* what C9 says a_walk does on a tick with jump pressed
WalkJumpStated(m, c) ==
    IF m.fvel > 10 * FX /\ HasBit(c.down, IN_Z_D)
    THEN [action |-> ACT_LONG_JUMP, jcount |-> m.jcount, jtimer |-> m.jtimer]
    ELSE [action |-> IF m.jcount + 1 >= 3 /\ m.fvel > 15 * FX THEN ACT_TRIPLE_JUMP
                     ELSE IF m.jcount + 1 >= 2 THEN ACT_DOUBLE_JUMP
                     ELSE ACT_JUMP,
          jcount |-> m.jcount + 1, jtimer |-> 5]

\* C9: in walking, for every input frame with jump pressed (whatever the
\* attack bit and the stick): with forward speed > 10 and crouch held the
\* next action is long jump and the counter is unchanged; otherwise the
\* counter is incremented, the jump timer is 5, and the next action is
\* triple jump if the counter is now >= 3 and forward speed > 15, else
\* double jump if the counter is now >= 2, else jump.
C9_WalkJumpBranch ==
    mario.action = ACT_WALKING =>
        \A c \in InputFrames :
            HasBit(c.pressed, IN_A) =>
                LET m1 == a_walk(Intend(mario, c), c, surfs)
                    w  == WalkJumpStated(mario, c)
                IN  /\ m1.action = w.action
                    /\ m1.jcount = w.jcount
                    /\ m1.jtimer = w.jtimer
                    /\ m1.prev_act = ACT_WALKING
                    /\ m1.fvel = mario.fvel
                    /\ m1.pos = mario.pos

\* a walking state, fast enough for a long jump, with the counter at 2
C9_Witness ==
    /\ mario.action = ACT_WALKING
    /\ mario.fvel > 15 * FX
    /\ mario.jcount = 2
    /\ mario.jtimer > 0

\* C10 (as stated): after more than 5 consecutive ticks in idle or
\* decelerating without a jump, the next jump started from the ground is a
\* single jump, never a double or triple jump.
C10_RestClearsCounter ==
    (hist.rested /\ hist.act \in {ACT_IDLE, ACT_WALKING, ACT_DECELERATING}) =>
        mario.action \notin {ACT_DOUBLE_JUMP, ACT_TRIPLE_JUMP}

----------------------------------------------------------------------------
(* The session on LVL_LAVA: the character falls onto the lava and is       *)
(* thrown up again and again until the health runs out.                    *)

StandFrames == {cN, cA}

InitLava ==
    /\ mario = EnterLevel(MarioState, LVL_LAVA)
    /\ objs = <<>>
    /\ surfs = LavaSurfs
    /\ cur_lvl = LVL_LAVA
    /\ state = "GAMEPLAY"
    /\ probe = [op |-> "none"]
    /\ hist = NoHistory
    /\ plan = [script |-> << >>, free |-> 0]
    /\ ptcl = << >>

LavaTick(c) == LogicTick(c, << >>) /\ UNCHANGED <<plan, ptcl>>

NextLava == \E c \in StandFrames : LavaTick(c)

SpecLava == InitLava /\ [][NextLava]_vars

\* the amounts of damage the program deals, and one above the full health
DmgAmounts == {1, 256, 512, 3000}

\* C1: take_dmg(amt) while inv > 0 changes nothing (health, hurt and inv
\* included), so for every amt a second take_dmg right after a first one
\* leaves the MarioState as the first call left it.
C1_TakeDmgNoOpInWindow ==
    \A amt \in DmgAmounts :
        /\ mario.inv > 0 => take_dmg(mario, amt) = mario
        /\ LET m1 == take_dmg(mario, amt)
           IN  /\ m1.inv > 0
               /\ take_dmg(m1, amt) = m1
               /\ take_dmg(m1, amt).health = m1.health

\* the first tick of a lava boost (atimer is 1 after it) has called
\* take_dmg inside the window opened by an earlier boost: inv was not set
\* to 60 again, and the health shows the earlier hits only
C1_Witness ==
    /\ hist.act = ACT_LAVA_BOOST
    /\ mario.action = ACT_LAVA_BOOST
    /\ mario.atimer = 1
    /\ mario.inv > 0
    /\ mario.inv < 59
    /\ mario.health = 2176 - 2 * 256

----------------------------------------------------------------------------
(* The session on LVL_YARD: the player uses the jump key only, so the      *)
(* character stays on the vertical through the start position.             *)

InitYard ==
    /\ mario = EnterLevel(MarioState, LVL_YARD)
    /\ objs = YardObjs
    /\ surfs = PlaneSurfs
    /\ cur_lvl = LVL_YARD
    /\ state = "GAMEPLAY"
    /\ probe = [op |-> "none"]
    /\ hist = NoHistory
    /\ plan = [script |-> << >>, free |-> 0]
    /\ ptcl = << >>

YardTick(c, sine) == LogicTick(c, sine) /\ UNCHANGED <<plan, ptcl>>

NextYard == \E c \in StandFrames : \E sine \in Sines(objs) : YardTick(c, sine)

SpecYard == InitYard /\ [][NextYard]_vars

RECURSIVE SumSeq(_)
SumSeq(q) == IF q = << >> THEN 0 ELSE Head(q) + SumSeq(Tail(q))

CoinsOf(o) == IF o.type \in Coins /\ o.collected THEN o.coins ELSE 0
LifeOf(o) == IF o.type = "ONE_UP" /\ o.collected THEN 1 ELSE 0
StarOf(o) == IF o.type = "STAR" /\ o.collected THEN 1 ELSE 0

\* a coin, a 1-up, or a star that is not yet owned
Collectible(o) ==
    \/ o.type \in Coins \cup {"ONE_UP"}
    \/ o.type = "STAR" /\ (o.collected \/ ~has_star(mario, cur_lvl, o.star_id))

\* C2: once a tick has run, no collectible (coin, 1-up, star not yet owned)
\* within range is still active: it was deactivated by the first check
\* that found it in range.  A collected actor is never active, and the
\* counters show every reward exactly once: coins is the sum of the values
\* of the collected coins, lives the initial 4 plus the collected 1-ups,
\* stars the number of collected stars.
C2_CollectOnce ==
    /\ \A i \in 1..Len(objs) :
          /\ objs[i].collected => ~objs[i].active
          /\ (hist.nrun > 0 /\ Collectible(objs[i]) /\ InRange(mario, objs[i])) =>
                objs[i].collected
    /\ mario.coins = SumSeq([i \in 1..Len(objs) |-> CoinsOf(objs[i])])
    /\ mario.lives = 4 + SumSeq([i \in 1..Len(objs) |-> LifeOf(objs[i])])
    /\ mario.stars = SumSeq([i \in 1..Len(objs) |-> StarOf(objs[i])])

\* the character has collected the coin, the 1-up and the star on the way
\* down and has since spent several ticks of the star dance within range of
\* all three
C2_Witness ==
    /\ mario.action = ACT_STAR_DANCE
    /\ hist.act = ACT_STAR_DANCE
    /\ hist.nrun >= 5
    /\ mario.coins = 5
    /\ mario.lives = 5
    /\ mario.stars = 1
    /\ \A i \in 1..3 : objs[i].collected /\ ~objs[i].active /\ InRange(mario, objs[i])

----------------------------------------------------------------------------
(* find_floor on its own: the surface list and the query point are drawn   *)
(* from bounded sets, FloorQuery applies find_floor and records the call.  *)

Range(f) == {f[i] : i \in DOMAIN f}

SeqsUpTo(P, n) == UNION {[1..k -> P] : k \in 0..n}

MaxSurfs == 2

\* floors at three heights, a floor off to the side, a slope, a second
\* floor at height 0 and the faces of a box (four of them vertical)
FloorPool ==
    {make_ground(1, 0, 0, 400 * FX, 400 * FX, 0, SURF_DEFAULT),
     make_ground(2, 0, 0, 400 * FX, 400 * FX, 100 * FX, SURF_DEFAULT),
     make_ground(3, 0, 0, 400 * FX, 400 * FX, 300 * FX, SURF_LAVA),
     make_ground(4, 600 * FX, 0, 200 * FX, 200 * FX, 50 * FX, SURF_DEFAULT),
     make_slope(5, 0, 0, -200 * FX, 0, 200 * FX, 200 * FX, 400 * FX, SURF_DEFAULT),
     make_ground(6, 0, 0, 200 * FX, 200 * FX, 0, SURF_LAVA)}
    \cup Range(make_box(10, 0, -12000 * FX, 0, 100 * FX, 100 * FX, 100 * FX, SURF_DEFAULT))

QueryXZ == {0, 150 * FX, 210 * FX, 600 * FX}
QueryY == {-12000 * FX, -200 * FX, 0, 100 * FX, 400 * FX}

InitFloor ==
    /\ mario = MarioState
    /\ objs = <<>>
    /\ surfs \in SeqsUpTo(FloorPool, MaxSurfs)
    /\ cur_lvl = LVL_PLANE
    /\ state = "GAMEPLAY"
    /\ probe = [op |-> "none"]
    /\ hist = NoHistory
    /\ plan = [script |-> << >>, free |-> 0]
    /\ ptcl = << >>

FloorQuery(x, y, z) ==
    /\ probe.op = "none"
    /\ probe' = [op |-> "find_floor", x |-> x, y |-> y, z |-> z,
                 r |-> find_floor(surfs, x, y, z)]
    /\ UNCHANGED <<mario, objs, surfs, cur_lvl, state, hist, plan, ptcl>>

NextFloor == \E x \in QueryXZ, y \in QueryY, z \in QueryXZ : FloorQuery(x, y, z)

SpecFloor == InitFloor /\ [][NextFloor]_vars

\* C3: find_floor returns either the sentinel (-11000, None), or a height
\* h <= y + 150 together with a surface of the list whose plane has height
\* h at (x, z).
C3_FindFloorWithinStep ==
    probe.op = "find_floor" =>
        \/ probe.r.h = -11000 * FX /\ probe.r.fl = None
        \/ /\ probe.r.h <= probe.y + 150 * FX
           /\ probe.r.fl \in Range(surfs)
           /\ PlaneY(probe.r.fl, probe.x, probe.z) = probe.r.h

\* find_floor has returned a floor while the list holds a surface whose
\* plane lies above the step allowance at the query point
C3_Witness ==
    /\ probe.op = "find_floor"
    /\ probe.r.fl # None
    /\ \E s \in Range(surfs) :
          /\ Abs(s.normal.y) >= NS \div 100
          /\ PlaneY(s, probe.x, probe.z) > probe.y + 150 * FX

----------------------------------------------------------------------------
(* The dispatch of one tick on its own: the character starts in any action *)
(* of ACT_MAP, or in an id that is no key of it, standing on the floor or  *)
(* in the air above it, and Dispatch runs the two lines                    *)
(*     fn = ACT_MAP.get(mario.action, a_idle); fn(mario, ctrl)             *)
(* for any input frame of the keyboard.                                    *)

\* an id that is not a key of ACT_MAP
ACT_UNKNOWN == CHOOSE a \in 0..1 : a \notin DOMAIN ACT_MAP

DispatchStarts ==
    {[EnterLevel(MarioState, LVL_PLANE) EXCEPT
        !.action = a, !.pos = Vec3f(0, y, 0), !.fvel = f, !.vel = Vec3f(0, 0, f),
        !.atimer = t, !.astate = st, !.floor = PlaneSurfs[1], !.floor_y = 0] :
     a \in DOMAIN ACT_MAP \cup {ACT_UNKNOWN}, y \in {0, 50 * FX},
     f \in {0, 20 * FX}, t \in {0, 9, 30}, st \in {0, 1}}

InitDispatch ==
    /\ mario \in DispatchStarts
    /\ objs = <<>>
    /\ surfs = PlaneSurfs
    /\ cur_lvl = LVL_PLANE
    /\ state = "GAMEPLAY"
    /\ probe = [op |-> "none"]
    /\ hist = NoHistory
    /\ plan = [script |-> << >>, free |-> 0]
    /\ ptcl = << >>

Dispatch(c) ==
    /\ probe.op = "none"
    /\ LET fn == Lookup(mario.action) IN
       IF fn = "KeyError"
       THEN state' = "RAISED" /\ UNCHANGED mario
       ELSE mario' = Call(fn, Intend(mario, c), c, surfs) /\ UNCHANGED state
    /\ probe' = [op |-> "dispatch", from |-> mario.action, c |-> c]
    /\ UNCHANGED <<objs, surfs, cur_lvl, hist, plan, ptcl>>

NextDispatch == \E c \in InputFrames : Dispatch(c)

SpecDispatch == InitDispatch /\ [][NextDispatch]_vars

HandlerNames == {ACT_MAP[a] : a \in DOMAIN ACT_MAP}

\* C4: the dispatch never raises; for every action id, a key of ACT_MAP or
\* not, the lookup yields a handler (the idle handler for an id that is no
\* key), and for every input frame the handler leaves the character in one
\* action: an action of ACT_MAP, or the action it had.
C4_DispatchTotal ==
    /\ state # "RAISED"
    /\ Lookup(mario.action) \in HandlerNames
    /\ (mario.action \notin DOMAIN ACT_MAP) => Lookup(mario.action) = "a_idle"
    /\ \A c \in InputFrames :
          Call(Lookup(mario.action), Intend(mario, c), c, surfs).action
              \in DOMAIN ACT_MAP \cup {mario.action}
    /\ probe.op = "dispatch" => mario.action \in DOMAIN ACT_MAP \cup {probe.from}

\* a tick has dispatched on an id that is no key of ACT_MAP, with the jump
\* pressed, and the idle handler has started a jump
C4_Witness ==
    /\ probe.op = "dispatch"
    /\ probe.from = ACT_UNKNOWN
    /\ mario.action = ACT_JUMP
    /\ mario.prev_act = ACT_UNKNOWN

----------------------------------------------------------------------------
(* The draw order of render.  The render list is the surface list (the     *)
(* entries ('e', s) that render appends first); the camera looks along the *)
(* z axis from (0, 0, cz) with yaw 0, so rot_pt leaves rz = v.z - cz.      *)

NEAR_CLIP == 10 * FX
FAR_CLIP == 12000 * FX

\* the depth rz of vertex v for a camera at height of z = cz, yaw 0
rot_pt(v, cz) == v.z - cz

\* the centre of a face and the sign test of a back-face cull for a camera
\* at (0, 0, cz): the normal points along the line of sight
Centre(sf) ==
    Vec3f(RDiv(SumSeq([k \in 1..4 |-> sf.verts[k].x]), 4),
          RDiv(SumSeq([k \in 1..4 |-> sf.verts[k].y]), 4),
          RDiv(SumSeq([k \in 1..4 |-> sf.verts[k].z]), 4))

TurnedAway(sf, cz) ==
    LET c == Centre(sf)
    IN  RDiv(sf.normal.x * c.x, NS) + RDiv(sf.normal.y * c.y, NS)
          + RDiv(sf.normal.z * (c.z - cz), NS) > 0

Project_cull(sf, i, cz) ==
    LET vis == {k \in 1..4 : rot_pt(sf.verts[k], cz) > NEAR_CLIP}
        sum == SumSeq([k \in 1..4 |->
                        IF k \in vis THEN rot_pt(sf.verts[k], cz) ELSE 0])
        az  == RDiv(sum, 4)
    IN  IF Cardinality(vis) >= 3 /\ az <= FAR_CLIP /\ ~TurnedAway(sf, cz)
        THEN << [az |-> az, idx |-> i] >>
        ELSE << >>

\* the loop body of `Project and sort' for the face sf at index i of the
\* render list: << >> if the face is not drawn, else the one entry
\* (az, i) it appends to polys
Project(sf, i, cz) ==
    LET vis == {k \in 1..4 : rot_pt(sf.verts[k], cz) > NEAR_CLIP}
        sum == SumSeq([k \in 1..4 |->
                        IF k \in vis THEN rot_pt(sf.verts[k], cz) ELSE 0])
        az  == RDiv(sum, 4)
    IN  IF Cardinality(vis) >= 3 /\ az <= FAR_CLIP
        THEN << [az |-> az, idx |-> i] >>
        ELSE << >>

RECURSIVE Polys(_, _, _)
Polys(R, i, cz) ==
    IF i > Len(R) THEN << >> ELSE Project(R[i], i, cz) \o Polys(R, i + 1, cz)

InsertBeforeEqual(q, e) ==
    LET n == Cardinality({k \in 1..Len(q) : q[k].az > e.az})
    IN  SubSeq(q, 1, n) \o <<e>> \o SubSeq(q, n + 1, Len(q))

\* e goes behind every entry of the sorted q whose key is >= its own: the
\* insertion step of a stable sort in descending order
InsertStable(q, e) ==
    LET n == Cardinality({k \in 1..Len(q) : q[k].az >= e.az})
    IN  SubSeq(q, 1, n) \o <<e>> \o SubSeq(q, n + 1, Len(q))

\* polys.sort(key=lambda x: x[0], reverse=True): Python's sort is stable,
\* also with reverse=True
RECURSIVE SortDesc(_, _)
SortDesc(q, done) ==
    IF q = << >> THEN done ELSE SortDesc(Tail(q), InsertStable(done, Head(q)))

\* the faces in the order render draws them
render(R, cz) == SortDesc(Polys(R, 1, cz), << >>)

MaxFaces == 3

\* two faces at the same depth, one nearer, one farther, one behind the
\* camera, one across the near plane, one beyond the far plane, and the far
\* and the near side of a box in front of the camera
FacePool ==
    {make_ground(1, -100 * FX, 300 * FX, 100 * FX, 100 * FX, 0, SURF_DEFAULT),
     make_ground(2, 100 * FX, 300 * FX, 100 * FX, 100 * FX, 0, SURF_DEFAULT),
     make_ground(3, 0, 150 * FX, 100 * FX, 100 * FX, 0, SURF_DEFAULT),
     make_ground(4, 0, 600 * FX, 100 * FX, 100 * FX, 50 * FX, SURF_DEFAULT),
     make_ground(5, 0, -500 * FX, 100 * FX, 100 * FX, 0, SURF_DEFAULT),
     make_ground(6, 0, 0, 100 * FX, 100 * FX, 0, SURF_DEFAULT),
     make_ground(7, 0, 13000 * FX, 100 * FX, 100 * FX, 0, SURF_DEFAULT),
     make_box(10, 0, 0, 300 * FX, 100 * FX, 100 * FX, 100 * FX, SURF_DEFAULT)[2],
     make_box(10, 0, 0, 300 * FX, 100 * FX, 100 * FX, 100 * FX, SURF_DEFAULT)[3]}

CamZ == {-40 * FX, 0}

InitRender ==
    /\ mario = MarioState
    /\ objs = <<>>
    /\ surfs \in SeqsUpTo(FacePool, MaxFaces)
    /\ cur_lvl = LVL_PLANE
    /\ state = "GAMEPLAY"
    /\ probe = [op |-> "none"]
    /\ hist = NoHistory
    /\ plan = [script |-> << >>, free |-> 0]
    /\ ptcl = << >>

Render(cz) ==
    /\ probe.op = "none"
    /\ probe' = [op |-> "render", cz |-> cz, drawn |-> render(surfs, cz)]
    /\ UNCHANGED <<mario, objs, surfs, cur_lvl, state, hist, plan, ptcl>>

NextRender == \E cz \in CamZ : Render(cz)

SpecRender == InitRender /\ [][NextRender]_vars

\* C8: render draws the faces in non-increasing order of sort depth: of two
\* drawn faces the one drawn first is at least as deep, and at equal depth
\* it is the one that stands first in the render list; every face that
\* passes the clipping tests is drawn once.
C8_DrawOrder ==
    probe.op = "render" =>
        LET d == probe.drawn IN
        /\ \A i, j \in 1..Len(d) :
              i < j => \/ d[i].az > d[j].az
                       \/ d[i].az = d[j].az /\ d[i].idx < d[j].idx
        /\ {d[i].idx : i \in 1..Len(d)}
              = {i \in 1..Len(surfs) : Project(surfs[i], i, probe.cz) # << >>}

\* three faces were drawn, two of them at the same depth and a third one,
\* later in the render list, deeper than both and drawn first
C8_Witness ==
    /\ probe.op = "render"
    /\ Len(probe.drawn) = 3
    /\ probe.drawn[1].idx = 3
    /\ probe.drawn[2].az = probe.drawn[3].az
    /\ probe.drawn[1].az > probe.drawn[2].az

----------------------------------------------------------------------------
(* One handler call on a course with a ledge and a wall.  The course is a  *)
(* 400 x 400 floor at height 0, a larger floor 300 below it, and a box 400 *)
(* high standing on the upper floor, whose face at z = 100 is a wall for a *)
(* character that moves along +z.  The character starts in any action of   *)
(* ACT_MAP at one of four places, and Step runs the dispatch of one tick.  *)

CourseSurfs ==
    << make_ground(1, 0, 0, 400 * FX, 400 * FX, 0, SURF_DEFAULT),
       make_ground(2, 0, 0, 2000 * FX, 2000 * FX, -300 * FX, SURF_DEFAULT) >>
    \o make_box(10, 0, 200 * FX, 150 * FX, 200 * FX, 400 * FX, 100 * FX, SURF_DEFAULT)

\* on the upper floor; just above it; in the air two units short of the
\* wall; at the height of the upper floor but past its edge
StepPlaces ==
    {Vec3f(0, 0, 0), Vec3f(0, 2 * FX, 0), Vec3f(0, 50 * FX, 99 * FX),
     Vec3f(0, 0, 300 * FX)}

\* the first tick of an action, or a later one while falling
StepPhases ==
    {[atimer |-> 0, astate |-> 0, vy |-> 0],
     [atimer |-> 9, astate |-> 1, vy |-> -20 * FX]}

\* m with the floor that find_floor reports at its position
OnFloorOf(m, S) ==
    [m EXCEPT !.floor = find_floor(S, m.pos.x, m.pos.y, m.pos.z).fl,
              !.floor_y = find_floor(S, m.pos.x, m.pos.y, m.pos.z).h]

StepStarts ==
    {OnFloorOf([EnterLevel(MarioState, LVL_COURSE) EXCEPT
                  !.action = a, !.pos = p, !.face = fc, !.fvel = f,
                  !.vel = Vec3f(0, ph.vy, RDiv(f * coss(fc), NS)),
                  !.atimer = ph.atimer, !.astate = ph.astate, !.wktimer = wk],
               CourseSurfs) :
     a \in DOMAIN ACT_MAP, p \in StepPlaces, ph \in StepPhases,
     fc \in {0, 180 * AS}, f \in {0, 20 * FX}, wk \in {0, 3}}

\* the frames of the keys held, with no key gone down since the last frame
StepFrames == {ReadInput(keys, {}) : keys \in SUBSET Keys}

InitStep ==
    /\ mario \in StepStarts
    /\ objs = <<>>
    /\ surfs = CourseSurfs
    /\ cur_lvl = LVL_COURSE
    /\ state = "GAMEPLAY"
    /\ probe = [op |-> "none"]
    /\ hist = NoHistory
    /\ plan = [script |-> << >>, free |-> 0]
    /\ ptcl = << >>

Step(c) ==
    /\ probe.op = "none"
    /\ mario' = Call(Lookup(mario.action), Intend(mario, c), c, surfs)
    /\ probe' = [op |-> "step", m0 |-> mario, c |-> c]
    /\ UNCHANGED <<objs, surfs, cur_lvl, state, hist, plan, ptcl>>

NextStep == \E c \in StepFrames : Step(c)

SpecStep == InitStep /\ [][NextStep]_vars

\* a tick has run the freefall handler with the jump pressed
FreefallJumpPress ==
    /\ probe.op = "step"
    /\ probe.m0.action = ACT_FREEFALL
    /\ HasBit(probe.c.pressed, IN_A)

\* C11: in freefall, on a tick with the jump pressed, the character goes to
\* the wall kick exactly if wktimer is positive, whatever other keys are
\* pressed; the wall kick turns the facing yaw by 180 degrees (mod 360) and
\* sets the forward speed to 24.
C11_WallKick ==
    FreefallJumpPress =>
        /\ mario.action = ACT_WALL_KICK <=> probe.m0.wktimer > 0
        /\ mario.action = ACT_WALL_KICK =>
              /\ mario.face = (probe.m0.face + 180 * AS) % (360 * AS)
              /\ mario.fvel = 24 * FX
              /\ mario.vel.z = RDiv(24 * FX * coss(mario.face), NS)
              /\ mario.atimer = 0

\* jump, crouch and attack pressed together in freefall with a positive
\* wktimer: the wall kick wins
C11_Witness ==
    /\ FreefallJumpPress
    /\ HasBit(probe.c.pressed, IN_Z)
    /\ HasBit(probe.c.pressed, IN_B)
    /\ probe.m0.wktimer > 0
    /\ probe.m0.face = 0
    /\ mario.action = ACT_WALL_KICK
    /\ mario.face = 180 * AS

\* the actions whose handlers move the character with air_step
AirActs ==
    {ACT_JUMP, ACT_DOUBLE_JUMP, ACT_TRIPLE_JUMP, ACT_BACKFLIP, ACT_SIDE_FLIP,
     ACT_LONG_JUMP, ACT_WALL_KICK, ACT_FREEFALL, ACT_DIVE, ACT_SLIDE_KICK,
     ACT_GROUND_POUND, ACT_KNOCKBACK, ACT_LAVA_BOOST}

\* the tick has run the air step of an airborne action (the handler went
\* past its early returns: its timer has advanced, or the ground pound was
\* in its falling phase) and the step has reported a landing: it alone
\* leaves the character at the height of the floor it found
StepLanded ==
    /\ probe.op = "step"
    /\ probe.m0.action \in AirActs
    /\ IF probe.m0.action = ACT_GROUND_POUND THEN probe.m0.astate = 1
       ELSE mario.atimer >= 1
    /\ mario.pos.y = mario.floor_y

\* C12 as stated: every landing leads to walking with the stick pushed and
\* to idle without, except from dive, slide kick and ground pound.
C12_LandWalkOrIdle ==
    StepLanded =>
        mario.action =
            CASE probe.m0.action = ACT_DIVE -> ACT_BELLY_SLIDE
              [] probe.m0.action = ACT_SLIDE_KICK -> ACT_SLIDE_KICK_SL
              [] probe.m0.action = ACT_GROUND_POUND -> ACT_GP_LAND
              [] OTHER -> IF probe.c.stick_mag > 0 THEN ACT_WALKING ELSE ACT_IDLE

\* C12, amended: jump, double jump, triple jump, freefall and wall kick
\* land into walking with the stick pushed and into idle without; backflip,
\* side flip, long jump, knockback and lava boost land into idle whatever
\* the stick; dive lands into belly slide, slide kick into slide-kick
\* slide, ground pound into ground-pound land.
C12_Landing ==
    StepLanded =>
        mario.action =
            CASE probe.m0.action = ACT_DIVE -> ACT_BELLY_SLIDE
              [] probe.m0.action = ACT_SLIDE_KICK -> ACT_SLIDE_KICK_SL
              [] probe.m0.action = ACT_GROUND_POUND -> ACT_GP_LAND
              [] probe.m0.action \in LandActs ->
                    IF probe.c.stick_mag > 0 THEN ACT_WALKING ELSE ACT_IDLE
              [] OTHER -> ACT_IDLE

\* a long jump has landed with the stick pushed, into idle
C12_Witness ==
    /\ StepLanded
    /\ probe.m0.action = ACT_LONG_JUMP
    /\ probe.m0.pos.y > probe.m0.floor_y
    /\ probe.c.stick_mag > 0
    /\ mario.action = ACT_IDLE
    /\ mario.fvel = 0

----------------------------------------------------------------------------
(* The particle list and the order of the stages of a tick.  A Particle is *)
(* its life, its kind and `moved', the number of times ptcl.update has     *)
(* advanced its position (the velocity is random, so the position itself   *)
(* is not followed).  StageTick is the logic tick on LVL_YARD together     *)
(* with the particle list.  The ground pound, whose handler emits smoke,   *)
(* is out of the player's reach here: the frames are those of StandFrames. *)

Particle(l, k) == [life |-> l, kind |-> k, moved |-> 0]

\* Particles.emit: n particles of kind 0 and life l
emit(n, l) == [i \in 1..n |-> Particle(l, 0)]

\* Particles.emit_sparkle: n particles of kind 1; l stands for the value of
\* random.randint(15, 30), one draw for the n particles
emit_sparkle(n, l) == [i \in 1..n |-> Particle(l, 1)]

SparkleLives == {15, 30}

\* Particles.update: every particle moves and loses one tick of life, and
\* the particles whose life is used up are dropped
Aged(p) == [p EXCEPT !.life = @ - 1, !.moved = @ + 1]

Alive(p) == p.life > 0

ptcl_update(P) == SelectSeq([i \in 1..Len(P) |-> Aged(P[i])], Alive)

\* the particles that the loop body of interact_objs emits for the actor o
interact_emit(m, o, lvl, is_attacking, rl) ==
    IF ~o.active \/ o.collected THEN << >>
    ELSE IF ~InRange(m, o) THEN << >>
    ELSE IF o.type \in Coins THEN emit(8, 15)
    ELSE IF o.type = "STAR"
    THEN (IF ~has_star(m, lvl, o.star_id) THEN emit_sparkle(20, rl) ELSE << >>)
    ELSE IF o.type = "ONE_UP" THEN emit(10, 15)
    ELSE IF o.type \in Enemies
    THEN (IF m.vel.y < -5 * FX /\ m.pos.y > o.pos.y + 20 * FX THEN emit(10, 15)
          ELSE IF m.action \in {ACT_DIVE, ACT_GP_LAND} \/ is_attacking
          THEN emit(10, 15)
          ELSE emit(5, 10))
    ELSE << >>

\* the particles that interact_objs emits, in the order of the actor list
RECURSIVE emitted_from(_, _, _, _, _, _)
emitted_from(m, O, i, lvl, is_attacking, rl) ==
    IF i > Len(O) THEN << >>
    ELSE interact_emit(m, O[i], lvl, is_attacking, rl)
         \o emitted_from(interact_obj(m, O[i], lvl, is_attacking).m, O, i + 1,
                         lvl, is_attacking, rl)

PtclStagesAfter(P, m, O, lid, rl) ==
    ptcl_update(P \o emitted_from(m, O, 1, lid, IsAttacking(m.action), rl))

\* `ptcl.update()' and then `interact_objs(mario)': the list P is updated,
\* and the interaction with the actors O, already updated, appends to it
PtclStages(P, m, O, lid, rl) ==
    ptcl_update(P) \o emitted_from(m, O, 1, lid, IsAttacking(m.action), rl)

\* the particle list after the tick that starts from m with the frame c
TickPtcl(P, m, O, lid, sine, rl) == PtclStages(P, m, update_objs(O, m, sine), lid, rl)

StageTick(c, sine, rl) ==
    /\ LogicTick(c, sine)
    /\ ptcl' = TickPtcl(ptcl,
                        FloorEffects(Timers(Call(Lookup(mario.action),
                                                 Intend(mario, c), c, surfs))),
                        objs, cur_lvl, sine, rl)
    /\ UNCHANGED plan

NextStages ==
    \E c \in StandFrames : \E sine \in Sines(objs) : \E rl \in SparkleLives :
        StageTick(c, sine, rl)

SpecStages == InitYard /\ [][NextStages]_vars

\* the tick collects the actor i
Collects(i) == objs'[i].collected /\ ~objs[i].collected

\* the particles of ptcl' that the tick has appended
Appended == SubSeq(ptcl', Len(ptcl_update(ptcl)) + 1, Len(ptcl'))

\* C13 as stated: the particle update runs after the interaction, so at
\* the end of a tick that collects an actor every particle in the list,
\* the ones just emitted included, has been moved by the update.
C13_ParticlesAfterInteraction ==
    [][(\E i \in 1..Len(objs) : Collects(i)) =>
           \A k \in 1..Len(ptcl') : ptcl'[k].moved >= 1]_vars

\* C13, amended: the stages of a tick run in the order handler, actor
\* update, particle update, interaction.  The interaction tests the range
\* of an actor at the positions that the handler and the actor update
\* leave; the particles present before the tick are updated once; and the
\* particles that the interaction emits are appended after that update, so
\* they end the tick unmoved.
C13_StageOrder ==
    [][/\ SubSeq(ptcl', 1, Len(ptcl_update(ptcl))) = ptcl_update(ptcl)
       /\ \A k \in 1..Len(Appended) : Appended[k].moved = 0
       /\ \A i \in 1..Len(objs) :
             Collects(i) => /\ InRange(mario', objs'[i])
                            /\ Appended # << >>]_vars

\* the tick that collected the blue coin has ended: its eight particles
\* are in the list, unmoved and with their full life, and the coin, at the
\* height the actor update gave it, is within range
C13_Witness ==
    /\ objs[1].collected
    /\ ~objs[2].collected
    /\ InRange(mario, objs[1])
    /\ Len(ptcl) = 8
    /\ \A k \in 1..8 : ptcl[k] = Particle(15, 0)

----------------------------------------------------------------------------
(* The session on LVL_HAZARD: a 400 x 400 pad of lava at height 0 under    *)
(* the start position, nothing around it, and one goomba.  The             *)
(* lava boosts the character, the goomba knocks it back, and a knockback   *)
(* can carry it over the edge of the pad, where it falls out of the level  *)
(* and is put back at the start.                                           *)

HazardSurfs == << make_ground(1, 0, 0, 400 * FX, 400 * FX, 0, SURF_LAVA) >>

\* the places where the level puts the goomba: on the pad, or at the
\* height of the start position
GoombaStarts ==
    {Vec3f(0, y, z) : y \in {0, 200 * FX}, z \in {20 * FX, 60 * FX, 100 * FX, 150 * FX}}

InitHazard ==
    /\ mario = EnterLevel(MarioState, LVL_HAZARD)
    /\ objs \in {<< sp_goomba(p.x, p.y, p.z) >> : p \in GoombaStarts}
    /\ surfs = HazardSurfs
    /\ cur_lvl = LVL_HAZARD
    /\ state = "GAMEPLAY"
    /\ probe = [op |-> "none"]
    /\ hist = NoHistory
    /\ plan = [script |-> << >>, free |-> 0]
    /\ ptcl = << >>

HazardTick(c) == LogicTick(c, [i \in 1..Len(objs) |-> 0]) /\ UNCHANGED <<plan, ptcl>>

NextHazard == \E c \in StandFrames : HazardTick(c)

SpecHazard == InitHazard /\ [][NextHazard]_vars

\* C14: a tick lowers the health only if the invulnerability timer has
\* run out (it is 0 when the damage is applied, so at most 1 when the tick
\* starts), and only if the last tick that lowered it lies at least 59
\* ticks back.
C14_OneDamagePerWindow ==
    [][mario'.health < mario.health =>
           /\ mario.inv <= 1
           /\ hist.since + 1 >= 59]_vars

\* the goomba has hurt the character on the first tick and knocked it off
\* the pad, and now the fall out of the level, with the window over, has
\* lowered the health a second time
C14_Witness ==
    /\ hist.since = 0
    /\ mario.action = ACT_FREEFALL
    /\ mario.pos = LevelStart(LVL_HAZARD)
    /\ hist.act = ACT_KNOCKBACK
    /\ mario.inv = 60
    /\ mario.health = 2176 - 2 * 256
    /\ mario.coins = 0
    /\ objs[1].active

----------------------------------------------------------------------------
(* find_floor as a maximum, under SpecFloor                                *)

\* s is a candidate floor for the query (x, y, z): (x, z) lies in the
\* bounding rectangle of s widened by 10, |normal.y| is at least 0.01, and
\* the plane of s at (x, z) is at most y + 150 and above -11000
Qualifies(s, x, y, z) ==
    /\ MinX(s) - 10 * FX <= x /\ x <= MaxX(s) + 10 * FX
    /\ MinZ(s) - 10 * FX <= z /\ z <= MaxZ(s) + 10 * FX
    /\ Abs(s.normal.y) * 100 >= NS
    /\ PlaneY(s, x, z) <= y + 150 * FX
    /\ PlaneY(s, x, z) > -11000 * FX

\* the indices of the candidates of the recorded query
Candidates == {i \in 1..Len(surfs) : Qualifies(surfs[i], probe.x, probe.y, probe.z)}

\* C15: find_floor returns the greatest plane height among the candidates
\* together with the first candidate, in list order, that has this height;
\* with no candidate it returns the sentinel (-11000, None).
C15_FindFloorHighest ==
    probe.op = "find_floor" =>
        IF Candidates = {} THEN probe.r = [h |-> -11000 * FX, fl |-> None]
        ELSE \E i \in Candidates :
                /\ \A j \in Candidates :
                      PlaneY(surfs[j], probe.x, probe.z) <= PlaneY(surfs[i], probe.x, probe.z)
                /\ \A j \in Candidates :
                      PlaneY(surfs[j], probe.x, probe.z) = PlaneY(surfs[i], probe.x, probe.z)
                          => i <= j
                /\ probe.r.h = PlaneY(surfs[i], probe.x, probe.z)
                /\ probe.r.fl = surfs[i]

\* two different floors at the same height under the query point: the
\* first of the list is returned
C15_Witness ==
    /\ probe.op = "find_floor"
    /\ Candidates = {1, 2}
    /\ surfs[1] # surfs[2]
    /\ PlaneY(surfs[1], probe.x, probe.z) = PlaneY(surfs[2], probe.x, probe.z)
    /\ probe.r.fl = surfs[1]

----------------------------------------------------------------------------
(* find_wall on its own: the surface list and the query are drawn from     *)
(* bounded sets, CollideQuery applies find_wall and find_floor at the same *)
(* point and records both results.                                         *)

\* the faces of a low and of a tall box whose front faces lie in the same
\* plane, a steep slope (|normal.y| about 0.447) and a gentle slope
\* (|normal.y| about 0.894), both rising from z = 100
WallPool ==
    Range(make_box(10, 0, 50 * FX, 0, 100 * FX, 100 * FX, 100 * FX, SURF_DEFAULT))
    \cup Range(make_box(20, 300 * FX, 200 * FX, 0, 100 * FX, 400 * FX, 100 * FX, SURF_DEFAULT))
    \cup {make_slope(31, 0, 0, 100 * FX, 0, 400 * FX, 300 * FX, 400 * FX, SURF_DEFAULT),
          make_slope(32, 0, 0, 100 * FX, 0, 100 * FX, 300 * FX, 400 * FX, SURF_DEFAULT)}

WallX == {0, 51 * FX}
WallY == {2 * FX, 110 * FX, 111 * FX, 300 * FX}
WallZ == {0, 51 * FX, 515, 52 * FX, 53 * FX, 101 * FX}
WallYaw == {0, 90 * AS, 180 * AS, 270 * AS}

InitWall ==
    /\ mario = MarioState
    /\ objs = <<>>
    /\ surfs \in SeqsUpTo(WallPool, MaxSurfs)
    /\ cur_lvl = LVL_PLANE
    /\ state = "GAMEPLAY"
    /\ probe = [op |-> "none"]
    /\ hist = NoHistory
    /\ plan = [script |-> << >>, free |-> 0]
    /\ ptcl = << >>

CollideQuery(x, y, z, yaw) ==
    /\ probe.op = "none"
    /\ probe' = [op |-> "collide", x |-> x, y |-> y, z |-> z,
                 dx |-> sins(yaw), dz |-> coss(yaw),
                 wall |-> find_wall(surfs, x, y, z, sins(yaw), coss(yaw)),
                 floor |-> find_floor(surfs, x, y, z)]
    /\ UNCHANGED <<mario, objs, surfs, cur_lvl, state, hist, plan, ptcl>>

NextWall ==
    \E x \in WallX, y \in WallY, z \in WallZ, yaw \in WallYaw : CollideQuery(x, y, z, yaw)

SpecWall == InitWall /\ [][NextWall]_vars

\* the horizontal signed distance of (x, z) from the plane of s
PlaneDist(s, x, z) ==
    (x - s.verts[1].x) * s.normal.x + (z - s.verts[1].z) * s.normal.z

\* s is a wall for the query: |normal.y| is at most 0.7, y lies in the
\* vertical extent of s widened by 10, and the plane distance is positive
\* at (x, z) and not positive two units further along (dx, dz)
IsWallFor(s, x, y, z, dx, dz) ==
    /\ Abs(s.normal.y) * 10 <= 7 * NS
    /\ MinY(s) - 10 * FX <= y /\ y <= MaxY(s) + 10 * FX
    /\ PlaneDist(s, x, z) > 0
    /\ PlaneDist(s, x + RDiv(dx * 2 * FX, NS), z + RDiv(dz * 2 * FX, NS)) <= 0

\* the indices of the walls of the recorded query
WallsHit ==
    {i \in 1..Len(surfs) :
        IsWallFor(surfs[i], probe.x, probe.y, probe.z, probe.dx, probe.dz)}

\* C16: find_wall returns the first surface of the list that is a wall for
\* the query, and None when no surface of the list is one.
C16_FindWallFirst ==
    probe.op = "collide" =>
        IF WallsHit = {} THEN probe.wall = None
        ELSE \E i \in WallsHit :
                /\ \A j \in WallsHit : i <= j
                /\ probe.wall = surfs[i]

\* the second surface of the list is returned: the first one is no wall
\* for the query, and the probe point lies exactly in the plane
C16_Witness ==
    /\ probe.op = "collide"
    /\ WallsHit = {2}
    /\ probe.wall = surfs[2]
    /\ surfs[1] # surfs[2]
    /\ PlaneDist(surfs[2], probe.x + RDiv(probe.dx * 2 * FX, NS),
                 probe.z + RDiv(probe.dz * 2 * FX, NS)) = 0

----------------------------------------------------------------------------
(* Floor and wall eligibility, under SpecWall                              *)

\* the test of find_floor on the normal: |normal.y| is at least 0.01
FloorEligible(s) == ~(Abs(s.normal.y) * 100 < NS)

\* the test of find_wall on the normal: |normal.y| is at most 0.7
WallEligible(s) == ~(Abs(s.normal.y) * 10 > 7 * NS)

\* C17: floor eligibility and wall eligibility exclude each other, so that
\* no surface is returned by find_floor as the floor and by find_wall as
\* the wall of the same query.
C17_NoSurfaceFloorAndWall ==
    probe.op = "collide" =>
        \A i \in 1..Len(surfs) :
            /\ ~(FloorEligible(surfs[i]) /\ WallEligible(surfs[i]))
            /\ ~(probe.floor.fl = surfs[i] /\ probe.wall = surfs[i])

----------------------------------------------------------------------------
(* The session on a course with a block.  The character falls from the     *)
(* start position onto the ground, walks towards a block 200 high that     *)
(* begins 20 further on and is 100 deep, and then walks or stands as the   *)
(* player likes for at most MaxFree ticks.                                 *)

BlockSurfs ==
    << make_ground(1, 0, 0, 2000 * FX, 2000 * FX, 0, SURF_DEFAULT) >>
    \o make_box(10, 0, 100 * FX, 70 * FX, 200 * FX, 200 * FX, 100 * FX, SURF_DEFAULT)

\* no input through the fall; the same, then the stick held for 8 ticks
Approaches == {Rep(cN, 10), Rep(cN, 10) \o Rep(cS, 8)}

WalkFrames == {cN, cS}

InitBlock ==
    /\ mario = EnterLevel(MarioState, LVL_COURSE)
    /\ objs = <<>>
    /\ surfs = BlockSurfs
    /\ cur_lvl = LVL_COURSE
    /\ state = "GAMEPLAY"
    /\ probe = [op |-> "none"]
    /\ hist = NoHistory
    /\ plan \in {[script |-> sc, free |-> 0] : sc \in Approaches}
    /\ ptcl = << >>

NextBlock == ScriptedTick \/ \E c \in WalkFrames : FreeTick(c)

SpecBlock == InitBlock /\ [][NextBlock]_vars

\* the actions whose handlers end in a ground step
GroundActs ==
    {ACT_IDLE, ACT_WALKING, ACT_DECELERATING, ACT_CROUCH_IDLE, ACT_PUNCHING,
     ACT_PUNCH2, ACT_KICK, ACT_BELLY_SLIDE, ACT_SLIDE_KICK_SL}

\* C18: the character is never in a ground action while its height is more
\* than 10 above the floor that the ground step found beneath it; a ground
\* step that returns 'air' makes the action freefall on that tick.
C18_GroundActionOnFloor ==
    mario.action \in GroundActs => mario.pos.y <= mario.floor_y + 10 * FX

----------------------------------------------------------------------------
(* ground_step on its own: the surface list, the position and the speed    *)
(* are drawn from bounded sets, GroundStep applies ground_step once and    *)
(* records the call.                                                       *)

GroundY == {-50 * FX, 0, 50 * FX, 100 * FX, 151 * FX, 310 * FX}
GroundZ == {0, 150 * FX}
GroundSpeeds == {0, 60 * FX}

GroundStarts ==
    {[MarioState EXCEPT !.action = ACT_WALKING, !.pos = Vec3f(0, y, z),
                        !.fvel = f, !.vel = Vec3f(0, 0, f)] :
     y \in GroundY, z \in GroundZ, f \in GroundSpeeds}

InitGround ==
    /\ mario \in GroundStarts
    /\ objs = <<>>
    /\ surfs \in SeqsUpTo(FloorPool, MaxSurfs)
    /\ cur_lvl = LVL_PLANE
    /\ state = "GAMEPLAY"
    /\ probe = [op |-> "none"]
    /\ hist = NoHistory
    /\ plan = [script |-> << >>, free |-> 0]
    /\ ptcl = << >>

GroundStep ==
    /\ probe.op = "none"
    /\ mario' = ground_step(mario, surfs).m
    /\ probe' = [op |-> "ground_step", m0 |-> mario, r |-> ground_step(mario, surfs).r]
    /\ UNCHANGED <<objs, surfs, cur_lvl, state, hist, plan, ptcl>>

NextGround == GroundStep

SpecGround == InitGround /\ [][NextGround]_vars

\* how far the recorded ground step has raised the character
Raised == mario.pos.y - probe.m0.pos.y

\* C19: a single ground step never raises the character by more than 150.
C19_RaiseAtMost150 ==
    probe.op = "ground_step" => Raised <= 150 * FX

\* a ground step never raises the character by more than 250: the floor is
\* looked for from 100 above the character, and find_floor accepts a floor
\* up to 150 above the height it is asked for.  The step snaps the
\* character onto the floor found exactly when that floor is not more than
\* 10 below it, and leaves the height alone otherwise.
C19_RaiseAtMost250 ==
    probe.op = "ground_step" =>
        /\ Raised <= 250 * FX
        /\ mario.floor_y <= probe.m0.pos.y + 250 * FX
        /\ IF probe.m0.pos.y > mario.floor_y + 10 * FX
           THEN probe.r = "air" /\ Raised = 0
           ELSE probe.r = "ground" /\ mario.pos.y = mario.floor_y

\* a ground step onto a floor exactly 250 above the character
C19_Witness ==
    /\ probe.op = "ground_step"
    /\ probe.r = "ground"
    /\ Raised = 250 * FX
    /\ mario.floor # None

----------------------------------------------------------------------------
(* air_step on its own, on the course with the ledge and the box: the      *)
(* position, the velocity and the facing are drawn from bounded sets,      *)
(* AirStep applies air_step once and records the call.                     *)

AirY == {10 * FX, 30 * FX, 60 * FX}
AirZ == {0, 85 * FX, 90 * FX, 190 * FX}
AirSpeeds == {-16 * FX, 0, 16 * FX, 32 * FX}
AirVelY == {-40 * FX, -16 * FX, 0, 8 * FX}

AirStarts ==
    {[MarioState EXCEPT !.action = ACT_FREEFALL, !.pos = Vec3f(0, y, z),
                        !.face = fc, !.fvel = f,
                        !.vel = Vec3f(RDiv(f * sins(fc), NS), vy,
                                      RDiv(f * coss(fc), NS))] :
     y \in AirY, z \in AirZ, fc \in {0, 180 * AS}, f \in AirSpeeds, vy \in AirVelY}

InitAir ==
    /\ mario \in AirStarts
    /\ objs = <<>>
    /\ surfs = CourseSurfs
    /\ cur_lvl = LVL_COURSE
    /\ state = "GAMEPLAY"
    /\ probe = [op |-> "none"]
    /\ hist = NoHistory
    /\ plan = [script |-> << >>, free |-> 0]
    /\ ptcl = << >>

AirStep ==
    /\ probe.op = "none"
    /\ mario' = air_step(mario, surfs).m
    /\ probe' = [op |-> "air_step", m0 |-> mario, r |-> air_step(mario, surfs).r]
    /\ UNCHANGED <<objs, surfs, cur_lvl, state, hist, plan, ptcl>>

NextAir == AirStep

SpecAir == InitAir /\ [][NextAir]_vars

\* the position after k quarter sub-steps of the recorded call
SubPos(k) ==
    Vec3f(probe.m0.pos.x + k * RDiv(probe.m0.vel.x, 4),
          probe.m0.pos.y + k * RDiv(probe.m0.vel.y, 4),
          probe.m0.pos.z + k * RDiv(probe.m0.vel.z, 4))

\* the floor height and the wall that sub-step k finds
SubFloor(k) == find_floor(surfs, SubPos(k).x, SubPos(k).y, SubPos(k).z).h
SubWall(k) ==
    find_wall(surfs, SubPos(k).x, SubPos(k).y + 50 * FX, SubPos(k).z,
              sins(probe.m0.face), coss(probe.m0.face))

\* sub-step k detects a landing, or else a wall contact
SubLands(k) == SubPos(k).y <= SubFloor(k)
SubHits(k) == ~SubLands(k) /\ SubWall(k) # None

\* the sub-steps that would end the step
Stops == {k \in 1..4 : SubLands(k) \/ SubHits(k)}

\* C20: air_step moves in 4 sub-steps of a quarter of the velocity each and
\* looks for the floor and then for the wall after every one.  The first
\* sub-step that detects a landing (y snapped to the floor) or a wall
\* contact (horizontal velocity and forward speed set to 0) ends the step,
\* the later sub-steps are not applied, and the result is 'air' exactly
\* when all 4 sub-steps were applied.
C20_QuarterSteps ==
    probe.op = "air_step" =>
        IF Stops = {}
        THEN /\ probe.r = "air"
             /\ mario.pos = SubPos(4)
             /\ mario.vel = probe.m0.vel /\ mario.fvel = probe.m0.fvel
        ELSE \E k \in Stops :
                /\ \A j \in Stops : k <= j
                /\ IF SubLands(k)
                   THEN /\ probe.r = "land"
                        /\ mario.pos = [SubPos(k) EXCEPT !.y = SubFloor(k)]
                        /\ mario.vel = probe.m0.vel /\ mario.fvel = probe.m0.fvel
                   ELSE /\ probe.r = "wall"
                        /\ mario.pos = SubPos(k)
                        /\ mario.wall = SubWall(k)
                        /\ mario.vel = [probe.m0.vel EXCEPT !.x = 0, !.z = 0]
                        /\ mario.fvel = 0

\* a wall contact on the second sub-step of a moving character: the third
\* and the fourth are not applied
C20_Witness ==
    /\ probe.op = "air_step"
    /\ probe.r = "wall"
    /\ Stops = {2, 3, 4}
    /\ probe.m0.vel.z # 0
    /\ mario.pos = SubPos(2)
    /\ mario.pos # SubPos(4)

----------------------------------------------------------------------------
(* Passing through a wall in one air step, under SpecAir                   *)

\* p lies beside the face s: within its extent along the horizontal axis
\* that runs in the plane of s
Beside(s, p) ==
    /\ s.normal.z # 0 => (MinX(s) <= p.x /\ p.x <= MaxX(s))
    /\ s.normal.x # 0 => (MinZ(s) <= p.z /\ p.z <= MaxZ(s))

\* the character at p is at a height inside the vertical extent of s, and so
\* is the height at which air_step looks for walls
AtHeightOf(s, p) ==
    /\ MinY(s) <= p.y /\ p.y <= MaxY(s)
    /\ MinY(s) <= p.y + 50 * FX /\ p.y + 50 * FX <= MaxY(s)

\* the recorded air step took the character from the positive side of the
\* plane of s to its non-positive side
Crossed(s) ==
    /\ WallEligible(s)
    /\ Beside(s, probe.m0.pos) /\ Beside(s, mario.pos)
    /\ AtHeightOf(s, probe.m0.pos) /\ AtHeightOf(s, mario.pos)
    /\ PlaneDist(s, probe.m0.pos.x, probe.m0.pos.z) > 0
    /\ PlaneDist(s, mario.pos.x, mario.pos.z) <= 0

\* C21: an air step at a forward speed of magnitude at most 48 that takes
\* the character from the positive side of the plane of a wall-eligible
\* surface to its non-positive side, at a height inside the vertical
\* extent of that surface, returns 'wall'.
C21_NoTunnelling ==
    (probe.op = "air_step" /\ Abs(probe.m0.fvel) <= 48 * FX) =>
        \A i \in 1..Len(surfs) : Crossed(surfs[i]) => probe.r = "wall"

----------------------------------------------------------------------------
(* Gravity and the fall speed limit, under SpecHazard                      *)

\* the tick was one more tick of the same airborne action with an air
\* update: the handler has counted the action timer up, and neither a
\* launch, a stomp on the goomba nor a respawn has set the velocity
AirUpdateTick ==
    /\ mario.action \in {ACT_FREEFALL, ACT_JUMP, ACT_KNOCKBACK, ACT_LAVA_BOOST}
    /\ mario.atimer > 0
    /\ mario'.action = mario.action
    /\ mario'.atimer = mario.atimer + 1
    /\ mario'.coins = mario.coins
    /\ mario'.pos # LevelStart(cur_lvl)

----------------------------------------------------------------------------
(* Entries into actions.  The character starts in any action on the course *)
(* with the ledge and the box, whose upper floor may be lava and where a   *)
(* goomba may stand next to the start, and the session runs for            *)
(* MaxEntryTicks logic ticks.                                              *)

MaxEntryTicks == 2

\* the course with the upper floor turned into lava
LavaCourseSurfs ==
    << make_ground(1, 0, 0, 400 * FX, 400 * FX, 0, SURF_LAVA) >> \o Tail(CourseSurfs)

\* the wall-kick timer may run in freefall, and a walk may follow one or two
\* earlier jumps
EntryStarts ==
    {m \in StepStarts : m.face = 0 /\ (m.wktimer = 0 \/ m.action = ACT_FREEFALL)}
    \cup {[m EXCEPT !.jcount = j] :
            m \in {n \in StepStarts : n.face = 0 /\ n.wktimer = 0 /\ n.action = ACT_WALKING},
            j \in {1, 2}}

\* no input, the stick, a jump press, a punch press, the crouch key, and
\* the jump press with the crouch key, without and with the stick
EntryFrames ==
    {cN, cS, cA, ReadInput({}, {"x"}), ReadInput({"z"}, {}),
     ReadInput({"z"}, {"SPACE"}), ReadInput({"z", "dir"}, {"SPACE"})}

InitEntry ==
    /\ mario \in EntryStarts
    /\ objs \in {<< >>, << sp_goomba(0, 0, 80 * FX) >>}
    /\ surfs \in {CourseSurfs, LavaCourseSurfs}
    /\ cur_lvl = LVL_COURSE
    /\ state = "GAMEPLAY"
    /\ probe = [op |-> "none"]
    /\ hist = NoHistory
    /\ plan = [script |-> << >>, free |-> 0]
    /\ ptcl = << >>

EntryTick(c) ==
    /\ plan.free < MaxEntryTicks
    /\ LogicTick(c, [i \in 1..Len(objs) |-> 0])
    /\ plan' = [plan EXCEPT !.free = @ + 1]
    /\ UNCHANGED ptcl

NextEntry == \E c \in EntryFrames : EntryTick(c)

SpecEntry == InitEntry /\ [][NextEntry]_vars

\* the actions whose handlers set a vertical velocity on their first tick
LaunchActs ==
    {ACT_JUMP, ACT_DOUBLE_JUMP, ACT_TRIPLE_JUMP, ACT_BACKFLIP, ACT_SIDE_FLIP,
     ACT_LONG_JUMP, ACT_WALL_KICK, ACT_DIVE, ACT_SLIDE_KICK, ACT_KNOCKBACK,
     ACT_LAVA_BOOST}

\* the vertical velocity that the handler of m.action sets on the first tick
LaunchVel(m) ==
    CASE m.action = ACT_JUMP -> JUMP_VEL + RDiv(Abs(m.fvel), 4)
      [] m.action = ACT_DOUBLE_JUMP -> DBL_JUMP_VEL + RDiv(Abs(m.fvel), 5)
      [] m.action = ACT_TRIPLE_JUMP -> TRIPLE_VEL
      [] m.action = ACT_BACKFLIP -> BACKFLIP_VEL
      [] m.action = ACT_SIDE_FLIP -> SIDEFLIP_VEL
      [] m.action = ACT_LONG_JUMP -> LONGJUMP_VEL
      [] m.action = ACT_WALL_KICK -> WALL_KICK_VEL
      [] m.action = ACT_DIVE -> DIVE_VEL
      [] m.action = ACT_SLIDE_KICK -> 10 * FX
      [] m.action = ACT_KNOCKBACK -> KNOCKBACK_VEL
      [] m.action = ACT_LAVA_BOOST -> LAVA_BOOST_VEL

\* the tick ends in the launching action it began in, with a nonzero timer:
\* the handler has run to its end and nothing has entered the action anew
Continues ==
    /\ mario.action \in LaunchActs
    /\ mario'.action = mario.action
    /\ mario'.atimer # 0

\* the goomba is stomped on this tick, which sets the vertical velocity
Stomps == mario'.coins # mario.coins

\* C23: a launching action applies its initial vertical velocity on exactly
\* one tick per entry.  A tick that ends in a launching action with a
\* nonzero timer began in that action and has counted the timer up by one,
\* so every entry, whatever caused it, is first handled with the timer at
\* 0; the tick that handles it sets the initial velocity, and every later
\* tick of the entry only adds gravity.
C23_LaunchOncePerEntry ==
    [][/\ (mario'.action \in LaunchActs /\ mario'.atimer # 0) =>
              (mario.action = mario'.action /\ mario'.atimer = mario.atimer + 1)
       /\ (Continues /\ ~Stomps) =>
              mario'.vel.y = IF mario.atimer = 0
                             THEN Max(LaunchVel(mario) + GRAVITY, MAX_FALL)
                             ELSE Max(mario.vel.y + GRAVITY, MAX_FALL)]_vars

\* the goomba has knocked the character back on the first tick, and the
\* second tick has handled the knockback with the timer at 0
C23_Witness ==
    /\ plan.free = 2
    /\ mario.action = ACT_KNOCKBACK
    /\ mario.atimer = 1
    /\ hist.act = ACT_KNOCKBACK
    /\ mario.prev_act \notin LaunchActs
    /\ mario.vel.y = KNOCKBACK_VEL + GRAVITY

----------------------------------------------------------------------------
(* The session on LVL_PLANE with a ground pound: the character falls from  *)
(* the start position, jumps, pounds the ground from the top of the jump,  *)
(* and from the landing on the player presses what he likes until the      *)
(* ground-pound land is over.                                              *)

cZ == ReadInput({"z"}, {})

\* no input through the fall, a jump press, the crouch key at the top, and
\* no input through the hover and the fall
PoundScript == Rep(cN, 10) \o <<cA>> \o Rep(cN, 9) \o <<cZ>> \o Rep(cN, 15)

PoundFrames == {cN, cS, cA, cAS, cZ, ReadInput({}, {"x"})}

InitPound ==
    /\ mario = EnterLevel(MarioState, LVL_PLANE)
    /\ objs = <<>>
    /\ surfs = PlaneSurfs
    /\ cur_lvl = LVL_PLANE
    /\ state = "GAMEPLAY"
    /\ probe = [op |-> "none"]
    /\ hist = NoHistory
    /\ plan = [script |-> PoundScript, free |-> 0]
    /\ ptcl = << >>

\* the scripted part, up to the tick on which the ground pound lands
PoundFall ==
    /\ mario.action # ACT_GP_LAND
    /\ hist.act # ACT_GP_LAND
    /\ ScriptedTick

\* the player's part, while the ground-pound land lasts
PoundTick(c) ==
    /\ mario.action = ACT_GP_LAND
    /\ LogicTick(c, << >>)
    /\ UNCHANGED <<plan, ptcl>>

NextPound == PoundFall \/ \E c \in PoundFrames : PoundTick(c)

SpecPound == InitPound /\ [][NextPound]_vars

\* the action in which the n-th tick of a ground-pound land ends, for the
\* input c of that tick
AfterPoundLand(n, c) ==
    IF n <= 5 THEN ACT_GP_LAND
    ELSE IF HasBit(c.pressed, IN_A) THEN ACT_JUMP
    ELSE IF c.stick_mag > 0 THEN ACT_WALKING
    ELSE IF n >= 16 THEN ACT_IDLE
    ELSE ACT_GP_LAND

\* C24: the ground-pound land is entered with the timer at 0 and the timer
\* counts its ticks.  On the first 5 ticks no input changes the action;
\* from the 6th tick on a jump press leads to jump, otherwise a nonzero
\* stick leads to walking, and with neither the action becomes idle on the
\* 16th tick.
C24_PoundLandRecovery ==
    [][/\ (mario'.action = ACT_GP_LAND /\ mario.action # ACT_GP_LAND) => mario'.atimer = 0
       /\ mario.action = ACT_GP_LAND =>
             /\ mario'.action = AfterPoundLand(mario.atimer + 1, hist'.c)
             /\ mario'.action = ACT_GP_LAND => mario'.atimer = mario.atimer + 1]_vars

\* the ground-pound land has run out with no input: the character is idle
C24_Witness ==
    /\ mario.action = ACT_IDLE
    /\ mario.prev_act = ACT_GP_LAND
    /\ hist.act = ACT_GP_LAND
    /\ hist.nrun = 16
    /\ hist.c = cN

----------------------------------------------------------------------------
(* interact_objs on its own: the character and the actor list are drawn    *)
(* from bounded sets, Interact applies interact_objs once and records the  *)
(* call.                                                                   *)

MaxActors == 2

sp_piranha(x, y, z) == Obj("PIRANHA", Vec3f(x, y, z), 70 * FX, 0, 0, 2, 0)

\* a goomba and a piranha within reach of the origin, a goomba out of
\* reach, a goomba already defeated, and a star within reach
ActorPool ==
    {sp_goomba(0, 0, 40 * FX), sp_piranha(40 * FX, 0, 0), sp_goomba(0, 0, 500 * FX),
     [sp_goomba(0, 0, 20 * FX) EXCEPT !.active = FALSE], sp_star(0, -50 * FX, 0, 0)}

InteractStarts ==
    {[MarioState EXCEPT !.action = a, !.pos = Vec3f(0, y, 0), !.vel = Vec3f(0, vy, 0),
                        !.inv = inv] :
     a \in DOMAIN ACT_MAP, y \in {0, 20 * FX, 30 * FX},
     vy \in {-10 * FX, -5 * FX, 0}, inv \in {0, 30}}

InitInteract ==
    /\ mario \in InteractStarts
    /\ objs \in SeqsUpTo(ActorPool, MaxActors)
    /\ surfs = PlaneSurfs
    /\ cur_lvl = LVL_PLANE
    /\ state = "GAMEPLAY"
    /\ probe = [op |-> "none"]
    /\ hist = NoHistory
    /\ plan = [script |-> << >>, free |-> 0]
    /\ ptcl = << >>

Interact ==
    /\ probe.op = "none"
    /\ mario' = interact_objs(mario, objs, cur_lvl).m
    /\ objs' = interact_objs(mario, objs, cur_lvl).objs
    /\ probe' = [op |-> "interact", m0 |-> mario, O0 |-> objs]
    /\ UNCHANGED <<surfs, cur_lvl, state, hist, plan, ptcl>>

NextInteract == Interact

SpecInteract == InitInteract /\ [][NextInteract]_vars

\* the character as the loop of the recorded call finds it when it comes to
\* the i-th actor, and as it leaves it after the last one (i = Len + 1)
Visit(i) ==
    interact_from(probe.m0, SubSeq(probe.O0, 1, i - 1), 1, cur_lvl,
                  IsAttacking(probe.m0.action)).m

AttackActs ==
    {ACT_DIVE, ACT_GP_LAND, ACT_PUNCHING, ACT_PUNCH2, ACT_KICK, ACT_SLIDE_KICK,
     ACT_SLIDE_KICK_SL}

\* the i-th actor of the recorded call is an active enemy within range
EnemyMet(i) ==
    /\ probe.O0[i].type \in Enemies
    /\ probe.O0[i].active /\ ~probe.O0[i].collected
    /\ InRange(Visit(i), probe.O0[i])

\* the character comes down on the i-th actor from more than 20 above
ComesDownOn(i) ==
    /\ Visit(i).vel.y < -5 * FX
    /\ Visit(i).pos.y > probe.O0[i].pos.y + 20 * FX

\* C25: an active enemy within range is defeated (deactivated, one coin)
\* when the character comes down on it from more than 20 above, the
\* character then bouncing with vel.y = 30, or when the character's action
\* is an attack-type action; in every other case the enemy stays active
\* and the character takes 0x100 * dmg through the invulnerability gate and
\* enters knockback.
C25_EnemyContact ==
    probe.op = "interact" =>
        \A i \in 1..Len(probe.O0) :
            EnemyMet(i) =>
                IF ComesDownOn(i)
                THEN /\ ~objs[i].active
                     /\ Visit(i + 1) = [Visit(i) EXCEPT !.coins = @ + 1, !.vel.y = 30 * FX]
                ELSE IF Visit(i).action \in AttackActs
                THEN /\ ~objs[i].active
                     /\ Visit(i + 1) = [Visit(i) EXCEPT !.coins = @ + 1]
                ELSE /\ objs[i].active
                     /\ Visit(i + 1) = set_act(take_dmg(Visit(i), 256 * probe.O0[i].dmg),
                                               ACT_KNOCKBACK)


\* ---------------------------------------------------------------------
\* The thwomp: update_objs and interact_objs with a thwomp hanging over
\* a flat yard and the character standing or jumping near it.

ThwompHomes == {Vec3f(0, 200 * FX, 0), Vec3f(0, 400 * FX, 0),
                Vec3f(0, 200 * FX, 90 * FX), Vec3f(0, 400 * FX, 100 * FX)}

InitThwomp ==
    /\ mario = EnterLevel(MarioState, LVL_YARD)
    /\ \E h \in ThwompHomes : objs = << sp_thwomp(h.x, h.y, h.z) >>
    /\ surfs = PlaneSurfs
    /\ cur_lvl = LVL_YARD
    /\ state = "GAMEPLAY"
    /\ probe = [op |-> "none"]
    /\ hist = NoHistory
    /\ plan = [script |-> << >>, free |-> 0]
    /\ ptcl = << >>

MaxPress == 1

\* a tick; the jump button is pressed on at most MaxPress of them
ThwompTick(c) ==
    /\ c = cA => plan.free < MaxPress
    /\ LogicTick(c, [i \in 1..Len(objs) |-> 0])
    /\ plan' = [plan EXCEPT !.free = IF c = cA THEN @ + 1 ELSE @]
    /\ UNCHANGED ptcl

NextThwomp == \E c \in StandFrames : ThwompTick(c)

\* what a logic tick does to a thwomp that has left wait: update_objs moves
\* it whatever the character does, and interact_objs leaves it alone
ThwompAdvance ==
    /\ state = "GAMEPLAY"
    /\ objs[1].state # 0
    /\ objs' = update_objs(objs, mario, [i \in 1..Len(objs) |-> 0])

\* the main loop runs a logic tick on every second display frame as long as
\* the session is in gameplay, so a thwomp that can advance does advance
SpecThwomp == InitThwomp /\ [][NextThwomp]_vars /\ WF_objs(ThwompAdvance)

\* the character is within 100 units of the thwomp on both x and z (the
\* thwomp is updated with the character's position after the handler)
UnderThwomp ==
    /\ Abs(mario'.pos.x - objs[1].pos.x) < 100 * FX
    /\ Abs(mario'.pos.z - objs[1].pos.z) < 100 * FX

ThwompStep ==
    LET o == objs[1]
        n == objs'[1]
    IN  /\ o.state = 0 => /\ n.state = (IF UnderThwomp THEN 1 ELSE 0)
                          /\ n.pos = o.pos
        /\ o.state = 1 => /\ n.state \in {1, 2}
                          /\ n.pos.y < o.pos.y
                          /\ n.state = 2 => n.timer = 0
        /\ o.state = 2 => /\ n.state = (IF o.timer = 30 THEN 3 ELSE 2)
                          /\ n.timer = o.timer + 1
                          /\ n.pos = o.pos
        /\ o.state = 3 => /\ n.state \in {3, 0}
                          /\ n.pos.y > o.pos.y
                          /\ n.state = 0 => n.pos = o.home
        /\ mario'.health < mario.health => n.state = 1

\* C26: a thwomp goes through wait (0), slam down (1), rest (2), rise (3)
\* and back to wait in this order only; it leaves wait exactly when the
\* character is within 100 units on both x and z; it rests for 31 ticks;
\* it is back at its home height when it waits again; the character loses
\* health only on a tick whose thwomp is slamming down; and a triggered
\* thwomp always reaches rest, a resting one always rises, and a rising
\* one always waits again
C26_ThwompCycle ==
    /\ [][ThwompStep]_vars
    /\ (objs[1].state = 1) ~> (objs[1].state = 2)
    /\ (objs[1].state = 2) ~> (objs[1].state = 3)
    /\ (objs[1].state = 3) ~> (objs[1].state = 0 /\ objs[1].pos = objs[1].home)

\* the thwomp waits at home again after a slam that hit the character
C26_Witness ==
    /\ objs[1].state = 0
    /\ objs[1].pos = objs[1].home
    /\ mario.health = 2176 - 512


\* ---------------------------------------------------------------------
\* Faces turned away from the camera.

\* the indices of the faces render has drawn
Drawn == {probe.drawn[k].idx : k \in 1..Len(probe.drawn)}

\* the clipping tests of render: at least three vertices beyond the near
\* plane and the sort depth not beyond the far plane
Clipped(sf, cz) ==
    \/ Cardinality({k \in 1..4 : rot_pt(sf.verts[k], cz) > NEAR_CLIP}) < 3
    \/ RDiv(SumSeq([k \in 1..4 |->
                     IF rot_pt(sf.verts[k], cz) > NEAR_CLIP
                     THEN rot_pt(sf.verts[k], cz) ELSE 0]), 4) > FAR_CLIP

FRAME_SKIP == 2

SessionLevels == {LVL_PLANE, LVL_COURSE}

KeyDowns == {"none", "RETURN", "ESCAPE", "q"}

LevelSurfs(lid) ==
    IF lid = LVL_LAVA THEN LavaSurfs
    ELSE IF lid = LVL_COURSE THEN CourseSurfs
    ELSE PlaneSurfs

do_logic_every(lacc) == lacc + 1 >= 1

do_logic(lacc) == lacc + 1 >= FRAME_SKIP

\* the KEYDOWN handling of the frame's key: the session state, the
\* character and the level it leaves
AfterKeys(key, lid) ==
    LET same == [st |-> state, m |-> mario, S |-> surfs, O |-> objs, lvl |-> cur_lvl]
    IN  IF state = "TITLE" /\ key = "RETURN"
        THEN [same EXCEPT !.st = "LEVEL_SELECT"]
        ELSE IF state = "LEVEL_SELECT" /\ key = "RETURN"
        THEN [st |-> "GAMEPLAY", m |-> EnterLevel(mario, lid),
              S |-> LevelSurfs(lid), O |-> << >>, lvl |-> lid]
        ELSE IF state = "LEVEL_SELECT" /\ key = "ESCAPE"
        THEN [same EXCEPT !.st = "TITLE"]
        ELSE IF state = "GAMEPLAY" /\ key = "ESCAPE"
        THEN [same EXCEPT !.st = "PAUSE"]
        ELSE IF state = "PAUSE" /\ key = "ESCAPE"
        THEN [same EXCEPT !.st = "GAMEPLAY"]
        ELSE IF state = "PAUSE" /\ key = "q"
        THEN [same EXCEPT !.st = "LEVEL_SELECT"]
        ELSE IF state = "DEATH" /\ key = "RETURN" /\ probe.dtimer > 90
        THEN (IF mario.lives > 0 THEN [same EXCEPT !.st = "LEVEL_SELECT"]
              ELSE [same EXCEPT !.st = "TITLE", !.m = MarioState])
        ELSE same

\* the drawing routine of the RENDER section for a session state
Draws(st) ==
    IF st = "TITLE" THEN "draw_title"
    ELSE IF st = "LEVEL_SELECT" THEN "draw_select"
    ELSE IF st \in {"GAMEPLAY", "PAUSE"} THEN "render"
    ELSE "draw_death"

\* the rest of the frame after the key events e: r is what the logic tick
\* leaves before its health check, or the state after the events if no
\* tick ran
FrameEnd(e, r, c, ticked) ==
    /\ mario' = IF ticked THEN Recentre(FallOut(HealthCheck(r.m), e.lvl), e.lvl)
                ELSE e.m
    /\ objs' = r.objs
    /\ surfs' = e.S
    /\ cur_lvl' = e.lvl
    /\ state' = IF ticked /\ r.m.health <= 0 THEN "DEATH" ELSE e.st
    /\ probe' = [op     |-> "frame",
                 lacc   |-> IF do_logic(probe.lacc) THEN 0 ELSE probe.lacc + 1,
                 dtimer |-> LET d == IF ticked /\ r.m.health <= 0 THEN 0
                                     ELSE probe.dtimer
                            IN  IF state' = "DEATH" /\ do_logic(probe.lacc)
                                THEN Min(d + 1, 91) ELSE d,
                 play   |-> e.st = "GAMEPLAY",
                 ticked |-> ticked,
                 drew   |-> Draws(state'),
                 seen   |-> IF Draws(state') = "render"
                            THEN [m |-> mario', O |-> objs', S |-> surfs']
                            ELSE None]
    /\ plan' = [plan EXCEPT !.free = @ + 1]
    /\ UNCHANGED <<hist, ptcl>>

\* one pass of the main loop with the key event key, the level lid under
\* the cursor of the level select and the input frame c
Frame(key, lid, c) ==
    IF AfterKeys(key, lid).st = "GAMEPLAY" /\ do_logic(probe.lacc)
    THEN FrameEnd(AfterKeys(key, lid),
                  TickCore(AfterKeys(key, lid).m, c, AfterKeys(key, lid).O,
                           AfterKeys(key, lid).S, AfterKeys(key, lid).lvl, << >>),
                  c, TRUE)
    ELSE FrameEnd(AfterKeys(key, lid),
                  [m |-> AfterKeys(key, lid).m, objs |-> AfterKeys(key, lid).O],
                  c, FALSE)

InitSession ==
    /\ mario = MarioState
    /\ objs = << >>
    /\ surfs = << >>
    /\ cur_lvl = 0
    /\ state = "TITLE"
    /\ probe = [op |-> "frame", lacc |-> 0, dtimer |-> 0, play |-> FALSE,
                ticked |-> FALSE, drew |-> "none", seen |-> None]
    /\ hist = NoHistory
    /\ plan = [script |-> << >>, free |-> 0]
    /\ ptcl = << >>

MaxFrames == 30

\* a frame of a session of at most MaxFrames frames
SessionFrame(key, lid) == plan.free < MaxFrames /\ Frame(key, lid, cN)

NextSession == \E key \in KeyDowns, lid \in SessionLevels : SessionFrame(key, lid)

SpecSession == InitSession /\ [][NextSession]_vars


FrameStep ==
    /\ (probe.play /\ probe'.play) => (probe'.ticked # probe.ticked)
    /\ probe'.ticked => probe'.play
    /\ probe'.drew = Draws(state')
    /\ probe'.play => \/ probe'.drew = "render"
                      \/ probe'.ticked /\ state' = "DEATH"
    /\ probe'.drew = "render" =>
           probe'.seen = [m |-> mario', O |-> objs', S |-> surfs']
    /\ (probe'.ticked /\ state = "GAMEPLAY") =>
           /\ mario' = Recentre(FallOut(HealthCheck(
                           TickCore(mario, cN, objs, surfs, cur_lvl, << >>).m),
                           cur_lvl), cur_lvl)
           /\ objs' = TickCore(mario, cN, objs, surfs, cur_lvl, << >>).objs
    /\ (probe.drew = "render" /\ probe'.drew = "render" /\ ~probe'.ticked) =>
           probe'.seen = probe.seen

\* C27: of two consecutive frames in gameplay exactly one runs a logic
\* tick; every frame ends with the drawing routine of its session state,
\* which in gameplay is render unless the tick of the frame found the
\* character dead; render reads the character and the actors as the whole
\* tick of its frame left them; and a render that follows a render with no
\* tick in between reads the same character, actors and surfaces
C27_TickThenRender == [][FrameStep]_vars

\* render has read the standing character in a frame that ran a tick
C27_Witness ==
    /\ probe.op = "frame"
    /\ probe.ticked
    /\ probe.drew = "render"
    /\ probe.seen.m = mario
    /\ mario.action = ACT_IDLE


\* ---------------------------------------------------------------------
\* Death: the session over a lava floor, with a character that the first
\* contact kills.

MaxDeathFrames == 215

InitDeath ==
    /\ \E l \in {1, 2} :
          mario = [EnterLevel(MarioState, LVL_LAVA) EXCEPT !.health = 256, !.lives = l]
    /\ objs = << >>
    /\ surfs = LavaSurfs
    /\ cur_lvl = LVL_LAVA
    /\ state = "GAMEPLAY"
    /\ probe = [op |-> "frame", lacc |-> 0, dtimer |-> 0, play |-> FALSE,
                ticked |-> FALSE, drew |-> "none", seen |-> None]
    /\ hist = NoHistory
    /\ plan = [script |-> << >>, free |-> 0]
    /\ ptcl = << >>

\* a frame of a session of at most MaxDeathFrames frames
DeathFrame(key) == plan.free < MaxDeathFrames /\ Frame(key, LVL_LAVA, cN)

NextDeath == \E key \in {"none", "RETURN"} : DeathFrame(key)

SpecDeath == InitDeath /\ [][NextDeath]_vars

DeathStep ==
    /\ mario'.lives # mario.lives =>
          \/ /\ mario'.lives = mario.lives - 1
             /\ state = "GAMEPLAY" /\ probe'.ticked /\ state' = "DEATH"
          \/ /\ mario.lives = 0 /\ mario' = MarioState
             /\ state = "DEATH" /\ state' = "TITLE"
    /\ (probe'.ticked /\ state = "GAMEPLAY") =>
          (state' = "DEATH"
             <=> TickCore(mario, cN, objs, surfs, cur_lvl, << >>).m.health <= 0)
    /\ (state' = "DEATH" /\ state # "DEATH") =>
          /\ probe'.ticked
          /\ mario'.lives = mario.lives - 1
    /\ state = "DEATH" =>
          /\ ~probe'.ticked
          /\ mario' = mario \/ (mario.lives = 0 /\ mario' = MarioState)
    /\ mario'.lives >= 0

\* C28: lives go down only by one, in the frame whose logic tick finds
\* health <= 0 at its health check, and that frame puts the session into
\* DEATH; no frame that starts in DEATH runs a logic tick or changes the
\* character, except the one that replaces a character with 0 lives by a
\* fresh one; lives are never negative.
C28_OneLifePerDeath == [][DeathStep]_vars

\* gameplay again after a death that took one of two lives
C28_Witness ==
    /\ state = "GAMEPLAY"
    /\ probe.op = "frame"
    /\ plan.free > 180
    /\ mario.lives = 1
    /\ mario.health = 2176

\* gameplay again with a fresh character after the death that took the
\* last life
C28_WitnessFresh ==
    /\ state = "GAMEPLAY"
    /\ plan.free > 180
    /\ mario.lives = 4


\* ---------------------------------------------------------------------
\* Surface references across a level transition.

\* C29: whenever render runs, the character's floor and wall are each None
\* or a surface of the current surface list.
C29_NoStaleSurface ==
    probe.drew = "render" =>
        /\ mario.floor = None \/ mario.floor \in Range(surfs)
        /\ mario.wall = None \/ mario.wall \in Range(surfs)


\* ---------------------------------------------------------------------
\* Degenerate quads: find_floor and find_wall over lists that hold quads
\* whose first three vertices lie on one line or coincide.

\* the cross product of the two edges from the first vertex vanishes
Collinear(p1, p2, p3) ==
    /\ (p2.y - p1.y) * (p3.z - p1.z) = (p2.z - p1.z) * (p3.y - p1.y)
    /\ (p2.z - p1.z) * (p3.x - p1.x) = (p2.x - p1.x) * (p3.z - p1.z)
    /\ (p2.x - p1.x) * (p3.y - p1.y) = (p2.y - p1.y) * (p3.x - p1.x)

Degenerate(s) == Collinear(s.verts[1], s.verts[2], s.verts[3])

\* quads with a degenerate first corner (one point, a segment along x, an
\* upright segment, a segment with the fourth vertex off its line, two
\* equal vertices), a ground under them and an upright quad
QuadPool ==
    {make_quad(40, Vec3f(0, 0, 0), Vec3f(0, 0, 0), Vec3f(0, 0, 0), Vec3f(0, 0, 0),
               SURF_DEFAULT),
     make_quad(41, Vec3f(0, 0, 0), Vec3f(100 * FX, 0, 0), Vec3f(200 * FX, 0, 0),
               Vec3f(100 * FX, 0, 0), SURF_DEFAULT),
     make_quad(42, Vec3f(0, 0, 0), Vec3f(0, 100 * FX, 0), Vec3f(0, 100 * FX, 0),
               Vec3f(0, 0, 0), SURF_DEFAULT),
     make_quad(43, Vec3f(0, 0, 0), Vec3f(100 * FX, 0, 0), Vec3f(200 * FX, 0, 0),
               Vec3f(0, 0, 100 * FX), SURF_DEFAULT),
     make_quad(44, Vec3f(0, 0, 0), Vec3f(0, 0, 0), Vec3f(0, 100 * FX, 100 * FX),
               Vec3f(0, 0, 100 * FX), SURF_DEFAULT),
     make_ground(1, 0, 0, 1000 * FX, 1000 * FX, -20 * FX, SURF_DEFAULT),
     make_quad(45, Vec3f(0, 0, 0), Vec3f(0, 100 * FX, 0),
                   Vec3f(0, 100 * FX, 100 * FX), Vec3f(0, 0, 100 * FX),
               SURF_DEFAULT)}

QuadX == {-1 * FX, 0, 1 * FX, 50 * FX}
QuadY == {0, 50 * FX}
QuadZ == {-1 * FX, 0, 1 * FX, 50 * FX}

InitQuad ==
    /\ mario = MarioState
    /\ objs = <<>>
    /\ surfs \in SeqsUpTo(QuadPool, MaxSurfs)
    /\ cur_lvl = LVL_PLANE
    /\ state = "GAMEPLAY"
    /\ probe = [op |-> "none"]
    /\ hist = NoHistory
    /\ plan = [script |-> << >>, free |-> 0]
    /\ ptcl = << >>

NextQuad ==
    \E x \in QuadX, y \in QuadY, z \in QuadZ, yaw \in WallYaw : CollideQuery(x, y, z, yaw)

SpecQuad == InitQuad /\ [][NextQuad]_vars

\* C31: a quad that make_quad builds from degenerate vertices is a surface
\* with the zero vector as its normal, and no query gets it back from
\* find_floor or from find_wall.
C31_DegenerateIsOpenAir ==
    \A i \in 1..Len(surfs) :
        Degenerate(surfs[i]) =>
            /\ surfs[i].normal = Vec3f(0, 0, 0)
            /\ probe.op = "collide" =>
                  /\ probe.floor.fl # surfs[i]
                  /\ probe.wall # surfs[i]

\* a query inside the extent of a degenerate quad that stands first in the
\* list: the floor found is the ground behind it, the wall the upright quad
C31_Witness ==
    /\ probe.op = "collide"
    /\ Len(surfs) = 2
    /\ Degenerate(surfs[1])
    /\ MinX(surfs[1]) <= probe.x /\ probe.x <= MaxX(surfs[1])
    /\ MinZ(surfs[1]) <= probe.z /\ probe.z <= MaxZ(surfs[1])
    /\ MinY(surfs[1]) <= probe.y /\ probe.y <= MaxY(surfs[1])
    /\ \/ probe.floor.fl = surfs[2]
       \/ probe.wall = surfs[2]


\* ---------------------------------------------------------------------
\* Health: the lava pad with a blue coin hanging over it, which the
\* character reaches on the way up from its first lava boost.

InitHealth ==
    /\ mario = EnterLevel(MarioState, LVL_HAZARD)
    /\ objs \in {<< sp_coin(0, h, 0, t) >> : h \in {300 * FX, 100 * FX},
                                              t \in {"COIN", "COIN_BLUE"}}
    /\ surfs = HazardSurfs
    /\ cur_lvl = LVL_HAZARD
    /\ state = "GAMEPLAY"
    /\ probe = [op |-> "none"]
    /\ hist = NoHistory
    /\ plan = [script |-> << >>, free |-> 0]
    /\ ptcl = << >>

HealthTick(c) == LogicTick(c, [i \in 1..Len(objs) |-> 0]) /\ UNCHANGED <<plan, ptcl>>

NextHealth == \E c \in StandFrames : HealthTick(c)

SpecHealth == InitHealth /\ [][NextHealth]_vars

\* the amounts the program heals by: 0x40 times the value of a coin
HealAmounts == {64, 128, 320}

\* C32: the health is within 0..0x880 after every tick, take_dmg and heal
\* keep it there for every amount the program uses, level entry sets it to
\* 0x880, and the wedge count is within 0..8.
C32_HealthInRange ==
    /\ 0 <= mario.health /\ mario.health <= 2176
    /\ wedges(mario) \in 0..8
    /\ \A amt \in DmgAmounts :
          /\ take_dmg([mario EXCEPT !.inv = 0], amt).health \in 0..2176
          /\ take_dmg([mario EXCEPT !.inv = 0], amt).health = Max(0, mario.health - amt)
    /\ \A amt \in HealAmounts :
          /\ heal(mario, amt).health \in 0..2176
          /\ heal(mario, amt).health = Min(2176, mario.health + amt)
    /\ EnterLevel(mario, cur_lvl).health = 2176

\* the blue coin was taken after the first lava boost: the heal of 0x140
\* on a health of 0x780 stopped at 0x880
C32_Witness ==
    /\ mario.coins = 5
    /\ mario.health = 2176
    /\ mario.inv > 0
    /\ ~objs[1].active


\* ---------------------------------------------------------------------
\* Settling: on the flat floor, with no actors and no input, from a start
\* in any action of ACT_MAP.

MaxSettle == 130

\* on the floor or 100 above it, at rest or moving forward, falling or not,
\* at the start of the action or three ticks into it
SettleStarts ==
    {[EnterLevel(MarioState, LVL_PLANE) EXCEPT
          !.action = a, !.pos = Vec3f(0, y, 0), !.fvel = f,
          !.vel = Vec3f(0, v, f), !.atimer = t] :
        a \in DOMAIN ACT_MAP, y \in {0, 100 * FX}, f \in {0, 20 * FX},
        v \in {0, -10 * FX}, t \in {0, 3}}

InitSettle ==
    /\ mario \in SettleStarts
    /\ objs = <<>>
    /\ surfs = PlaneSurfs
    /\ cur_lvl = LVL_PLANE
    /\ state = "GAMEPLAY"
    /\ probe = [op |-> "none"]
    /\ hist = NoHistory
    /\ plan = [script |-> << >>, free |-> 0]
    /\ ptcl = << >>

\* a logic tick with no key held; plan.free counts the ticks
SettleTick ==
    /\ plan.free < MaxSettle
    /\ LogicTick(cN, << >>)
    /\ plan' = [plan EXCEPT !.free = @ + 1]
    /\ UNCHANGED ptcl

NextSettle == SettleTick

\* the passing of a logic tick, as the tick counter shows it
TickPasses ==
    /\ state = "GAMEPLAY"
    /\ plan.free < MaxSettle
    /\ plan' = [plan EXCEPT !.free = @ + 1]

\* the main loop runs a logic tick on every second display frame as long as
\* the session is in gameplay
SpecSettle == InitSettle /\ [][NextSettle]_vars /\ WF_plan(TickPasses)

\* C33: with no input the character reaches idle from every action of
\* ACT_MAP, and from some tick on it is idle on every tick.
C33_SettlesInIdle == <>[](mario.action = ACT_IDLE)

\* idle after the fall out of the level that ends the death action: the
\* respawn has cost one wedge
C33_Witness ==
    /\ mario.action = ACT_IDLE
    /\ hist.act = ACT_IDLE
    /\ mario.health = 2176 - 256
    /\ mario.pos.y = 0


\* ---------------------------------------------------------------------
\* The health meter and death.

\* C34: at the end of a logic tick with a wedge count of 0 the session has
\* left GAMEPLAY for DEATH.
C34_EmptyMeterIsDeath ==
    (hist.act # NoHistory.act /\ wedges(mario) = 0) => state = "DEATH"


\* ---------------------------------------------------------------------
\* The wall-contact timer: a jump against the face of the box of the
\* course, the landing beside it, and the ticks after the landing.

\* through the fall from the start, some walking ticks towards the box, a
\* jump, and no input until well after the landing
KickScripts ==
    {Rep(cN, 10) \o Rep(cS, k) \o <<c>> \o Rep(cN, 45) : k \in {3, 4, 5}, c \in {cA, cAS}}

InitKick ==
    /\ mario = EnterLevel(MarioState, LVL_COURSE)
    /\ objs = <<>>
    /\ surfs = CourseSurfs
    /\ cur_lvl = LVL_COURSE
    /\ state = "GAMEPLAY"
    /\ probe = [op |-> "none"]
    /\ hist = NoHistory
    /\ plan \in {[script |-> sc, free |-> 0] : sc \in KickScripts}
    /\ ptcl = << >>

NextKick == ScriptedTick \/ \E c \in StandFrames : FreeTick(c)

SpecKick == InitKick /\ [][NextKick]_vars

\* C35: wktimer is positive only if an air step reported a wall contact in
\* one of the 5 ticks before; so after 5 or more consecutive ticks in idle
\* or decelerating, whose handlers run no air step, it is 0.
C35_NoStaleWallTimer ==
    (hist.rest >= 5 /\ mario.action \in {ACT_IDLE, ACT_DECELERATING}) =>
        mario.wktimer = 0


\* ---------------------------------------------------------------------
\* Contact with a damaging enemy while the invulnerability timer runs.

\* the i-th actor of the recorded call is an enemy the character meets
\* with inv > 0 and that is neither stomped nor struck: it stays active
HurtsWhileInvulnerable(i) ==
    /\ EnemyMet(i)
    /\ Visit(i).inv > 0
    /\ objs[i].active

\* C36: while the invulnerability timer is positive, contact with a
\* damaging actor leaves the character's health, action, action timer,
\* velocity and forward speed unchanged.
C36_InvulnerableContactNoOp ==
    probe.op = "interact" =>
        \A i \in 1..Len(probe.O0) :
            HurtsWhileInvulnerable(i) =>
                /\ Visit(i + 1).health = Visit(i).health
                /\ Visit(i + 1).action = Visit(i).action
                /\ Visit(i + 1).atimer = Visit(i).atimer
                /\ Visit(i + 1).vel = Visit(i).vel
                /\ Visit(i + 1).fvel = Visit(i).fvel


\* ---------------------------------------------------------------------
\* The ledge: a low box on the ground, the character dropping onto it
\* from the start height, and a goomba on the ground walking up to it.

LedgeSurfs ==
    << make_ground(1, 0, 0, 2000 * FX, 2000 * FX, 0, SURF_DEFAULT) >>
    \o make_box(10, 0, 15 * FX, 0, 100 * FX, 30 * FX, 100 * FX, SURF_DEFAULT)

MaxLedgeTicks == 30

InitLedge ==
    /\ mario = [MarioState EXCEPT !.pos = Vec3f(0, 200 * FX, 0), !.action = ACT_FREEFALL]
    /\ objs = << sp_goomba(0, 0, 120 * FX) >>
    /\ surfs = LedgeSurfs
    /\ cur_lvl = LVL_COURSE
    /\ state = "GAMEPLAY"
    /\ probe = [op |-> "none"]
    /\ hist = NoHistory
    /\ plan = [script |-> << >>, free |-> 0]
    /\ ptcl = << >>

LedgeTick(c) ==
    /\ plan.free < MaxLedgeTicks
    /\ LogicTick(c, [i \in 1..Len(objs) |-> 0])
    /\ plan' = [plan EXCEPT !.free = @ + 1]
    /\ UNCHANGED ptcl

NextLedge == \E c \in StandFrames : LedgeTick(c)

SpecLedge == InitLedge /\ [][NextLedge]_vars

\* the actions the character has while it stands or moves on the ground
OnGroundActs == GroundActs \cup {ACT_GP_LAND}

\* an enemy is defeated in this step with the bounce of a stomp
Stomped ==
    \E i \in 1..Len(objs) :
        /\ objs[i].type \in Enemies
        /\ objs[i].active /\ ~objs'[i].active
        /\ mario'.vel.y = 30 * FX

\* C37: in a grounded action the vertical velocity is 0, and an enemy is
\* stomped only while the character is airborne: no step leaves the
\* character in a grounded action with vel.y # 0, and no step out of a
\* grounded action that stays in it ends with a stomp.
C37_StompOnlyAirborne ==
    [][/\ mario'.action \in OnGroundActs => mario'.vel.y = 0
       /\ (Stomped /\ mario.action \in OnGroundActs) => mario'.action \notin OnGroundActs]_vars


\* ---------------------------------------------------------------------
\* air_step on its own beside the block: the character is in the air in
\* front of the face of the block or away from it, falling or rising.

RiseStarts ==
    {[MarioState EXCEPT !.action = ACT_JUMP, !.pos = Vec3f(0, y, z), !.fvel = f,
                        !.vel = Vec3f(0, vy, f)] :
     y \in {1 * FX, 40 * FX, 60 * FX, 210 * FX}, z \in {-100 * FX, 0},
     f \in {0, 3 * FX, 32 * FX}, vy \in {-40 * FX, -16 * FX, 0, 20 * FX, 38 * FX}}

InitRise ==
    /\ mario \in RiseStarts
    /\ objs = <<>>
    /\ surfs = BlockSurfs
    /\ cur_lvl = LVL_COURSE
    /\ state = "GAMEPLAY"
    /\ probe = [op |-> "none"]
    /\ hist = NoHistory
    /\ plan = [script |-> << >>, free |-> 0]
    /\ ptcl = << >>

NextRise == AirStep

SpecRise == InitRise /\ [][NextRise]_vars

\* the k-th sub-step of the recorded call ends at or below the floor that
\* find_floor reports there
LandsAt(k) ==
    SubPos(k).y <= find_floor(surfs, SubPos(k).x, SubPos(k).y, SubPos(k).z).h

\* the sub-step in which the recorded call landed
LandK == CHOOSE k \in 1..4 : LandsAt(k) /\ \A j \in 1..(k - 1) : ~LandsAt(j)

\* C38: when a sub-step of an air step reports 'land', the floor height
\* the character is snapped to is not above the height the character had
\* reached in that sub-step.
C38_LandingNeverRaises ==
    (probe.op = "air_step" /\ probe.r = "land") =>
        mario.pos.y <= SubPos(LandK).y


\* ---------------------------------------------------------------------
\* Jump after jump on LVL_PLANE: the player holds the stick from the start
\* and presses the jump key on whichever ticks they like.

MaxHopTicks == 90

HopFrames == {cS, cAS}

InitHop ==
    /\ mario = EnterLevel(MarioState, LVL_PLANE)
    /\ objs = <<>>
    /\ surfs = PlaneSurfs
    /\ cur_lvl = LVL_PLANE
    /\ state = "GAMEPLAY"
    /\ probe = [op |-> "none"]
    /\ hist = NoHistory
    /\ plan = [script |-> << >>, free |-> 0]
    /\ ptcl = << >>

HopTick(c) ==
    /\ plan.free < MaxHopTicks
    /\ LogicTick(c, << >>)
    /\ plan' = [plan EXCEPT !.free = @ + 1]
    /\ UNCHANGED ptcl

NextHop == \E c \in HopFrames : HopTick(c)

SpecHop == InitHop /\ [][NextHop]_vars

\* C39: after every logic tick and for every input sequence the
\* consecutive-jump counter jcount is within 0..3.
C39_JumpCountBounded == mario.jcount \in 0..3

====
